---- MODULE Spec2Model ----
(***************************************************************************)
(* A model of the OpenAPI split / merge engine: core.py (component merge   *)
(* primitives, operation index), splitter.py (three grouping strategies,   *)
(* mini-document assembly, split runs) and merger.py (file discovery,      *)
(* per-file merge, finalization).                                          *)
(*                                                                         *)
(* Python dicts keep insertion order, so a dict is modelled as an ordered  *)
(* mapping: a sequence of entries [k |-> key, v |-> value] with pairwise   *)
(* distinct keys.  Python strings that the code takes apart (paths,        *)
(* labels, titles, file names) are sequences of one-character strings.     *)
(* An optional key is a sequence of length 0 (absent) or 1 (present).      *)
(***************************************************************************)
EXTENDS Integers, Sequences, FiniteSets, TLC

VARIABLES
    target,         \* ComponentExtractor.merge_components: the target mapping
    target0,        \* the target as it was before the first call
    prev_target,    \* the target as it was before the latest call
    sources,        \* the sources merged so far, in call order
    conflicts,      \* the conflict counts the latest call returned
    raised,         \* the latest call raised ValueError
    self_merged,    \* the latest call had the target itself as source
    policy,         \* conflict_strategy of the calls
    pc,             \* where the run of the command is
    spec,           \* OpenAPISplitter.spec: the loaded source document
    common_components,  \* OpenAPISplitter.common_components
    method,         \* cmd_split: args.method
    max_operations, \* cmd_split: args.max_operations
    pending,        \* the groups of the split run not yet written
    mapping,        \* the manifest the split run is building
    mini_spec,      \* the mini-document create_mini_spec returned last, if any
    include_components, \* create_mini_spec: include_components of that call
    output_dir,     \* the spec files of the split directory: name -> content
    mapping_file,   \* split_mapping.json of the split directory, if any
    conflict_strategy,  \* cmd_merge: args.conflict_strategy
    spec_files,     \* merge_all: the file list of get_spec_files
    file_idx,       \* merge_all: the position of the loop in spec_files
    merged_spec,    \* OpenAPIMerger.merged_spec
    stats,          \* OpenAPIMerger.stats
    merged_file,    \* the output file of the merge, if written
    loaded,         \* the document load_spec gave to a read-only query
    issues,         \* validate_spec_structure: the returned list, if called
    op_counts,      \* count_operations: the returned counts, if called
    operations,     \* get_operations: the returned list, if called
    analysis        \* analyze_components: the returned analysis, if called

comp_vars == <<target, target0, prev_target, sources, conflicts, raised,
               self_merged, policy>>

split_vars == <<spec, common_components, method, max_operations, pending, mapping,
                mini_spec, include_components>>

dir_vars == <<output_dir, mapping_file>>

merge_vars == <<conflict_strategy, spec_files, file_idx, merged_spec, stats, merged_file>>

query_vars == <<loaded, issues, op_counts, operations, analysis>>

vars == <<comp_vars, pc, split_vars, dir_vars, merge_vars, query_vars>>

(***************************************************************************)
(* Bounds of the model.                                                    *)
(***************************************************************************)
MaxMerges == 2
MaxPaths == 2
MaxOps == 2
MaxTitleLen == 3
MaxFiles == 2
MaxListed == 2

(***************************************************************************)
(* Ordered mappings (Python dict).                                         *)
(***************************************************************************)
Keys(m) == [i \in 1..Len(m) |-> m[i].k]

KeySet(m) == {m[i].k : i \in 1..Len(m)}

Has(m, key) == \E i \in 1..Len(m) : m[i].k = key

Get(m, key) == m[CHOOSE i \in 1..Len(m) : m[i].k = key].v

Put(m, key, val) ==
    IF Has(m, key)
    THEN [i \in 1..Len(m) |-> IF m[i].k = key THEN [k |-> key, v |-> val] ELSE m[i]]
    ELSE Append(m, [k |-> key, v |-> val])

Del(m, key) == SelectSeq(m, LAMBDA e : e.k # key)

Entry(key, val) == [k |-> key, v |-> val]

\* json.dumps(value, sort_keys=True) of a flat mapping: two mappings serialize
\* to the same text exactly when they hold the same key/value pairs, whatever
\* their key order; the set of pairs stands for the sorted text.
dumps_sorted(d) == {<<d[i].k, d[i].v>> : i \in 1..Len(d)}

(***************************************************************************)
(* core.py: ComponentExtractor                                             *)
(***************************************************************************)
COMPONENT_TYPES ==
    <<"schemas", "responses", "parameters", "examples", "requestBodies",
      "headers", "securitySchemes", "links", "callbacks">>

ComponentTypeSet == {COMPONENT_TYPES[i] : i \in 1..Len(COMPONENT_TYPES)}

NoConflicts == [t \in ComponentTypeSet |-> 0]

\* A mutant of merge_entry that overwrites the target under every policy.
merge_entry_overwrite(r, e, strategy) ==
    IF r.err THEN r
    ELSE IF Has(r.m, e.k)
    THEN IF dumps_sorted(Get(r.m, e.k)) # dumps_sorted(e.v)
         THEN [m |-> Put(r.m, e.k, e.v), n |-> r.n + 1, err |-> strategy = "error"]
         ELSE r
    ELSE [r EXCEPT !.m = Put(r.m, e.k, e.v)]

\* A mutant of merge_entry that never overwrites the target.
merge_entry_never(r, e, strategy) ==
    IF r.err THEN r
    ELSE IF Has(r.m, e.k)
    THEN IF dumps_sorted(Get(r.m, e.k)) # dumps_sorted(e.v)
         THEN [m |-> r.m, n |-> r.n + 1, err |-> strategy = "error"]
         ELSE r
    ELSE [r EXCEPT !.m = Put(r.m, e.k, e.v)]

\* A mutant of merge_entry that takes every name already in the target for a
\* conflict, without comparing the definitions.
merge_entry_nocompare(r, e, strategy) ==
    IF r.err THEN r
    ELSE IF Has(r.m, e.k)
    THEN [m |-> IF strategy = "keep_last" THEN Put(r.m, e.k, e.v) ELSE r.m,
          n |-> r.n + 1,
          err |-> strategy = "error"]
    ELSE [r EXCEPT !.m = Put(r.m, e.k, e.v)]

\* One pass of the loop body of merge_components (core.py 142-159) for the
\* source entry e = (name, definition); r.m is target[comp_type], r.n is
\* conflicts[comp_type], r.err says the ValueError was raised.
merge_entry(r, e, strategy) ==
    IF r.err THEN r
    ELSE IF Has(r.m, e.k)
    THEN IF dumps_sorted(Get(r.m, e.k)) # dumps_sorted(e.v)
         THEN [m |-> IF strategy = "keep_last" THEN Put(r.m, e.k, e.v) ELSE r.m,
               n |-> r.n + 1,
               err |-> strategy = "error"]
         ELSE r
    ELSE [r EXCEPT !.m = Put(r.m, e.k, e.v)]

RECURSIVE merge_entries(_, _, _)
merge_entries(r, entries, strategy) ==
    IF entries = <<>> THEN r
    ELSE merge_entries(merge_entry(r, Head(entries), strategy), Tail(entries), strategy)

\* One pass of the outer loop of merge_components (core.py 135-159) for the
\* component type ct; acc is [target, conflicts, err].
merge_type(acc, source, ct, strategy) ==
    IF acc.err \/ ~Has(source, ct) THEN acc
    ELSE LET tgt == IF Has(acc.target, ct) THEN acc.target
                    ELSE Put(acc.target, ct, <<>>)
             r   == merge_entries([m |-> Get(tgt, ct), n |-> acc.conflicts[ct],
                                   err |-> FALSE],
                                  Get(source, ct), strategy)
         IN  [target    |-> Put(tgt, ct, r.m),
              conflicts |-> [acc.conflicts EXCEPT ![ct] = r.n],
              err       |-> r.err]

RECURSIVE merge_types(_, _, _, _)
merge_types(acc, source, i, strategy) ==
    IF i > Len(COMPONENT_TYPES) THEN acc
    ELSE merge_types(merge_type(acc, source, COMPONENT_TYPES[i], strategy),
                     source, i + 1, strategy)

\* ComponentExtractor.merge_components(target, source, conflict_strategy):
\* .target is the target after the call, .conflicts the returned counts (the
\* counts the call had reached when it raised, which the caller never sees),
\* .err whether it raised ValueError.
merge_components(tgt, source, strategy) ==
    merge_types([target |-> tgt, conflicts |-> NoConflicts, err |-> FALSE],
                source, 1, strategy)

(***************************************************************************)
(* Python strings as sequences of characters.                              *)
(***************************************************************************)
S_root     == <<"r", "o", "o", "t">>
S_untagged == <<"u", "n", "t", "a", "g", "g", "e", "d">>
S_part     == <<"_", "p", "a", "r", "t">>
S_spec     == <<"s", "p", "e", "c", "_">>
S_specpart == <<"s", "p", "e", "c", "_", "p", "a", "r", "t">>
S_json     == <<".", "j", "s", "o", "n">>
S_Part     == <<"P", "a", "r", "t", " ">>
S_sep      == <<" ", "-", " ">>
S_API      == <<"A", "P", "I">>

Digits == <<"0", "1", "2", "3", "4", "5", "6", "7", "8", "9">>

\* str(n) for n >= 0.
RECURSIVE str(_)
str(n) == IF n < 10 THEN <<Digits[n + 1]>>
          ELSE str(n \div 10) \o <<Digits[(n % 10) + 1]>>

\* f"{n:03d}": at least three digits, zero-padded on the left.
format_03d(n) ==
    LET d == str(n)
    IN  IF Len(d) >= 3 THEN d
        ELSE [i \in 1..(3 - Len(d)) |-> "0"] \o d

RECURSIVE lstrip(_, _)
lstrip(s, c) == IF s # <<>> /\ Head(s) = c THEN lstrip(Tail(s), c) ELSE s

RECURSIVE rstrip(_, _)
rstrip(s, c) ==
    IF s # <<>> /\ s[Len(s)] = c THEN rstrip(SubSeq(s, 1, Len(s) - 1), c) ELSE s

\* s.strip(c)
strip(s, c) == rstrip(lstrip(s, c), c)

\* The positions at which sep occurs in s.
Occurrences(s, sep) ==
    {i \in 1..(Len(s) - Len(sep) + 1) : SubSeq(s, i, i + Len(sep) - 1) = sep}

\* sep in s
contains(s, sep) == Occurrences(s, sep) # {}

\* s.split(sep)[0]: the text before the first occurrence of sep, all of s when
\* sep does not occur.
split_first(s, sep) ==
    IF ~contains(s, sep) THEN s
    ELSE LET i == CHOOSE i \in Occurrences(s, sep) : \A j \in Occurrences(s, sep) : i <= j
         IN  SubSeq(s, 1, i - 1)

\* s.replace(c, rep) for a single character c.
RECURSIVE replace(_, _, _)
replace(s, c, rep) ==
    IF s = <<>> THEN <<>>
    ELSE (IF Head(s) = c THEN rep ELSE <<Head(s)>>) \o replace(Tail(s), c, rep)

(***************************************************************************)
(* Documents.  The root is a record of optional keys; `paths`, `info`,     *)
(* `components` and path items are ordered mappings; an Operation is a     *)
(* record with an optional `tags` list.                                    *)
(***************************************************************************)
None == <<>>
Some(x) == <<x>>
IsSome(o) == o # <<>>
Val(o) == o[1]

RECURSIVE FoldSeq(_, _, _)
FoldSeq(Op(_, _), acc, seq) ==
    IF seq = <<>> THEN acc ELSE FoldSeq(Op, Op(acc, Head(seq)), Tail(seq))

RECURSIVE ConcatAll(_)
ConcatAll(seqs) == IF seqs = <<>> THEN <<>> ELSE Head(seqs) \o ConcatAll(Tail(seqs))

(***************************************************************************)
(* core.py: OperationCounter                                               *)
(***************************************************************************)
HTTP_METHODS == <<"get", "post", "put", "delete", "patch", "options", "head", "trace">>

MethodSet == {HTTP_METHODS[i] : i \in 1..Len(HTTP_METHODS)}

\* spec.get('paths', {})
paths_of(doc) == IF IsSome(doc.paths) THEN Val(doc.paths) ELSE <<>>

\* The inner loop of get_operations (core.py 210-215) for one path item.
\* A mutant of item_operations that lists the methods in the key order of the
\* path item.
item_operations_key_order(path, item) ==
    IF ~item.isdict THEN <<>>
    ELSE LET es == SelectSeq(item.m, LAMBDA e : e.k \in MethodSet)
         IN  [i \in 1..Len(es) |->
                 [path |-> path, method |-> es[i].k, operation |-> es[i].v]]

item_operations(path, item) ==
    IF ~item.isdict THEN <<>>
    ELSE LET ms == SelectSeq(HTTP_METHODS, LAMBDA x : Has(item.m, x))
         IN  [i \in 1..Len(ms) |->
                 [path |-> path, method |-> ms[i], operation |-> Get(item.m, ms[i])]]

\* OperationCounter.get_operations(spec): (path, method, operation) triples,
\* paths in document order, methods in HTTP_METHODS order.
get_operations(doc) ==
    LET ps == paths_of(doc)
    IN  ConcatAll([i \in 1..Len(ps) |-> item_operations(ps[i].k, ps[i].v)])

\* core.py 187-191: the counts after one path item.
count_item(acc, p) ==
    IF ~p.v.isdict THEN acc
    ELSE [k \in DOMAIN acc |->
             IF k = "total" THEN acc[k] + Cardinality({x \in MethodSet : Has(p.v.m, x)})
             ELSE IF Has(p.v.m, k) THEN acc[k] + 1
             ELSE acc[k]]

\* OperationCounter.count_operations(spec): the count of each method and
\* `total`.
count_operations(doc) ==
    FoldSeq(count_item, [k \in MethodSet \cup {"total"} |-> 0], paths_of(doc))

(***************************************************************************)
(* core.py: ComponentExtractor.extract_components                          *)
(***************************************************************************)
extract_components(doc) ==
    [i \in 1..Len(COMPONENT_TYPES) |->
        Entry(COMPONENT_TYPES[i],
              IF IsSome(doc.components) /\ Has(Val(doc.components), COMPONENT_TYPES[i])
              THEN Get(Val(doc.components), COMPONENT_TYPES[i])
              ELSE <<>>)]

(***************************************************************************)
(* splitter.py: the grouping strategies.  A group mapping is an ordered    *)
(* mapping from label to list of triples.  Every operation of a Document   *)
(* is a mapping, so the isinstance(operation, dict) tests of lines 87 and  *)
(* 131 pass for each triple of get_operations.                             *)
(***************************************************************************)
\* defaultdict(list): grouped[key].append(triple)
append_to(grouped, key, triple) ==
    IF Has(grouped, key)
    THEN Put(grouped, key, Append(Get(grouped, key), triple))
    ELSE Put(grouped, key, <<triple>>)

\* operation.get('tags', [])
tags_of(operation) == IF IsSome(operation.tags) THEN Val(operation.tags) ELSE <<>>

\* The body of the method loop of group_endpoints_by_tag (splitter.py 86-98).
tag_step(acc, triple) ==
    LET tags == tags_of(triple.operation)
        Add(g, tag) == append_to(g, tag, triple)
    IN  IF tags # <<>>
        THEN [acc EXCEPT !.grouped = FoldSeq(Add, acc.grouped, tags)]
        ELSE [acc EXCEPT !.untagged = Append(acc.untagged, triple)]

\* OpenAPISplitter.group_endpoints_by_tag
group_endpoints_by_tag(doc) ==
    LET r == FoldSeq(tag_step, [grouped |-> <<>>, untagged |-> <<>>], get_operations(doc))
    IN  IF r.untagged # <<>> THEN Put(r.grouped, S_untagged, r.untagged) ELSE r.grouped

\* splitter.py 122-126: the label of a path.
path_prefix(path) ==
    LET stripped == strip(path, "/")
        first    == split_first(stripped, <<"/">>)
        prefix   == IF first # <<>> THEN first ELSE S_root
    IN  replace(replace(prefix, "{", <<>>), "}", <<>>)

\* The body of the method loop of group_endpoints_by_path_prefix (128-132).
prefix_step(grouped, triple) == append_to(grouped, path_prefix(triple.path), triple)

\* range(0, n, step) for step # 0.
range_from_0(n, step) ==
    IF step < 0 \/ n <= 0 THEN <<>>
    ELSE [j \in 1..(((n - 1) \div step) + 1) |-> (j - 1) * step]

\* endpoints[i:i + size] for i >= 0, size >= 1.
slice(endpoints, i, size) ==
    SubSeq(endpoints, i + 1, IF i + size < Len(endpoints) THEN i + size ELSE Len(endpoints))

\* The body of the re-chunking loop (splitter.py 136-142) for the group g.
chunk_group(final_groups, g, max_per_file) ==
    IF Len(g.v) > max_per_file
    THEN LET starts == range_from_0(Len(g.v), max_per_file)
             AddChunk(fg, i) ==
                 Put(fg, g.k \o S_part \o str((i \div max_per_file) + 1),
                     slice(g.v, i, max_per_file))
         IN  FoldSeq(AddChunk, final_groups, starts)
    ELSE Put(final_groups, g.k, g.v)

\* The groups by prefix before re-chunking (splitter.py 115-132).
prefix_groups(doc) == FoldSeq(prefix_step, <<>>, get_operations(doc))

\* range(0, n, 0) raises ValueError.
chunking_raises(doc, max_per_file) ==
    max_per_file = 0 /\ \E i \in 1..Len(prefix_groups(doc)) : Len(prefix_groups(doc)[i].v) > 0

\* OpenAPISplitter.group_endpoints_by_path_prefix(max_per_file)
group_endpoints_by_path_prefix(doc, max_per_file) ==
    LET Chunk(fg, g) == chunk_group(fg, g, max_per_file)
    IN  FoldSeq(Chunk, <<>>, prefix_groups(doc))

\* A mutant of size_chunks that leaves out a last chunk shorter than the others.
size_chunks_full_only(doc, operations_per_file) ==
    LET all == get_operations(doc)
    IN  [j \in 1..(Len(all) \div operations_per_file) |->
            [part  |-> j,
             chunk |-> slice(all, (j - 1) * operations_per_file, operations_per_file)]]

\* The chunks of split_by_size (splitter.py 310-312): part number and chunk.
size_chunks(doc, operations_per_file) ==
    LET all    == get_operations(doc)
        starts == range_from_0(Len(all), operations_per_file)
    IN  [j \in 1..Len(starts) |->
            [part  |-> (starts[j] \div operations_per_file) + 1,
             chunk |-> slice(all, starts[j], operations_per_file)]]

(***************************************************************************)
(* splitter.py: create_mini_spec                                           *)
(***************************************************************************)
\* splitter.py 195-198: mini_spec['paths'][path][method] = operation
add_endpoint(paths, triple) ==
    LET item == IF Has(paths, triple.path) THEN Get(paths, triple.path).m ELSE <<>>
    IN  Put(paths, triple.path,
            [isdict |-> TRUE, m |-> Put(item, triple.method, triple.operation)])

\* splitter.py 183-186: the tags used by the operations of the group.
used_tags(endpoints) ==
    UNION {{tags_of(endpoints[i].operation)[j] :
               j \in 1..Len(tags_of(endpoints[i].operation))} :
           i \in 1..Len(endpoints)}

\* info.get('title', 'API')
title_of(info) == IF Has(info, "title") THEN Get(info, "title") ELSE S_API

\* splitter.py 201: f"{title} - {name}"
split_title(title, name) == title \o S_sep \o name

\* OpenAPISplitter.create_mini_spec(endpoints, name, include_components).
\* self.common_components is a dict of the nine types, so its truth test at
\* line 166 passes whatever the source holds.
create_mini_spec(doc, common, endpoints, name, with_components) ==
    LET info0 == IF IsSome(doc.info) THEN Val(doc.info)
                 ELSE <<Entry("title", S_API), Entry("version", <<"1.0.0">>)>>
        info1 == Put(info0, "title", split_title(title_of(info0), name))
        info2 == Put(info1, "x-split-part", name)
        info3 == Put(info2, "x-split-timestamp", <<"st_mtime">>)
        used  == used_tags(endpoints)
    IN  [openapi      |-> Some(IF IsSome(doc.openapi) THEN Val(doc.openapi) ELSE "3.1.0"),
         swagger      |-> None,
         info         |-> Some(info3),
         paths        |-> Some(FoldSeq(add_endpoint, <<>>, endpoints)),
         components   |-> IF with_components /\ common # <<>>
                          THEN Some(SelectSeq(common, LAMBDA e : e.v # <<>>))
                          ELSE None,
         servers      |-> doc.servers,
         security     |-> doc.security,
         tags         |-> IF IsSome(doc.tags) /\ used # {}
                          THEN Some(SelectSeq(Val(doc.tags), LAMBDA t : t.name \in used))
                          ELSE None,
         externalDocs |-> None]

\* A mutant of mini_spec_shares in which `info` of the mini-document is the
\* `info` object of the source, not a copy of it.
mini_spec_shares_info ==
    [info |-> TRUE, paths |-> FALSE, servers |-> FALSE, security |-> FALSE, tags |-> FALSE]

\* The containers of the mini-document that are objects of the source rather
\* than copies or new objects: `info` is a copy (161), `paths` and its path
\* items are new mappings (162, 197), `servers` and `security` are copies
\* (174, 178) and `tags` is a new list (189).
mini_spec_shares ==
    [info |-> FALSE, paths |-> FALSE, servers |-> FALSE, security |-> FALSE, tags |-> FALSE]

\* The source document after create_mini_spec returned mini: the writes of
\* 195-203 to `info` and `paths` of the mini-document are writes to the source
\* wherever the two share the container.
source_after(doc, mini, shares) ==
    [doc EXCEPT !.info  = IF shares.info /\ IsSome(@) THEN mini.info ELSE @,
                !.paths = IF shares.paths /\ IsSome(@) THEN mini.paths ELSE @]

\* len(set(path for path, _, _ in endpoints))
path_count(endpoints) == Cardinality({endpoints[i].path : i \in 1..Len(endpoints)})

\* splitter.py 225: tag.replace('/', '_').replace(' ', '_')
safe_tag(tag) == replace(replace(tag, "/", <<"_">>), " ", <<"_">>)

\* The files a split run is about to write, in write order: label, triples
\* and file name of each (splitter.py 223-227, 267-269, 310-315).
planned_files(doc, how, max_ops) ==
    IF how = "tags"
    THEN LET g == group_endpoints_by_tag(doc)
         IN  [i \in 1..Len(g) |->
                 [label |-> g[i].k, endpoints |-> g[i].v,
                  name |-> S_spec \o safe_tag(g[i].k) \o S_json]]
    ELSE IF how = "path"
    THEN LET g == group_endpoints_by_path_prefix(doc, max_ops)
         IN  [i \in 1..Len(g) |->
                 [label |-> g[i].k, endpoints |-> g[i].v,
                  name |-> S_spec \o g[i].k \o S_json]]
    ELSE LET g == size_chunks(doc, max_ops)
         IN  [i \in 1..Len(g) |->
                 [label |-> S_Part \o str(g[i].part), endpoints |-> g[i].chunk,
                  name |-> S_specpart \o format_03d(g[i].part) \o S_json]]

\* The `type` of the manifest of each split method.
mapping_type(how) ==
    IF how = "tags" THEN "tag-based" ELSE IF how = "path" THEN "path-based" ELSE "size-based"

(***************************************************************************)
(* merger.py                                                               *)
(***************************************************************************)
\* merger.py 29-37: the skeleton of the merged document.
merged_skeleton ==
    [openapi      |-> Some("3.1.0"),
     swagger      |-> None,
     info         |-> Some(<<Entry("title", <<"M", "e", "r", "g", "e", "d", " ", "A", "P", "I">>),
                            Entry("version", <<"1.0.0">>)>>),
     paths        |-> Some(<<>>),
     components   |-> Some(<<>>),
     servers      |-> None,
     security     |-> None,
     tags         |-> None,
     externalDocs |-> None]

\* merger.py 40-46
initial_stats ==
    [files_processed |-> 0, paths_merged |-> 0, operations_merged |-> 0,
     component_conflicts |-> <<>>, path_conflicts |-> 0]

\* The keys of `info` the model uses that start with `x-`.
ExtensionKeys == {"x-split-part", "x-split-timestamp", "x-logo", "x-owner"}

SplitIndicators == {"x-split-part", "x-split-timestamp"}

\* merger.py 112-115: the title of the first file without its split suffix.
clean_title(title) ==
    IF contains(title, S_sep) THEN split_first(title, S_sep) ELSE title

\* A mutant of merge_info in which a later file overwrites the description and
\* the extension keys of the target.
merge_info_last_wins(minfo, files_processed, doc) ==
    IF ~IsSome(doc.info) THEN minfo
    ELSE LET source_info == Val(doc.info)
         IN  IF files_processed = 0
             THEN LET copied == Del(Del(source_info, "x-split-part"), "x-split-timestamp")
                      title  == IF Has(copied, "title") THEN Get(copied, "title") ELSE <<>>
                  IN  IF contains(title, S_sep)
                      THEN Put(copied, "title", clean_title(title))
                      ELSE copied
             ELSE LET described ==
                          IF Has(source_info, "description")
                          THEN Put(minfo, "description", Get(source_info, "description"))
                          ELSE minfo
                      AddExtension(acc, e) ==
                          IF e.k \in ExtensionKeys /\ e.k \notin SplitIndicators
                          THEN Put(acc, e.k, e.v)
                          ELSE acc
                  IN  FoldSeq(AddExtension, described, source_info)

\* OpenAPIMerger.merge_info: the `info` of the merged document after the call.
merge_info(minfo, files_processed, doc) ==
    IF ~IsSome(doc.info) THEN minfo
    ELSE LET source_info == Val(doc.info)
         IN  IF files_processed = 0
             THEN LET copied == Del(Del(source_info, "x-split-part"), "x-split-timestamp")
                      title  == IF Has(copied, "title") THEN Get(copied, "title") ELSE <<>>
                  IN  IF contains(title, S_sep)
                      THEN Put(copied, "title", clean_title(title))
                      ELSE copied
             ELSE LET described ==
                          IF Has(source_info, "description") /\ ~Has(minfo, "description")
                          THEN Put(minfo, "description", Get(source_info, "description"))
                          ELSE minfo
                      AddExtension(acc, e) ==
                          IF e.k \in ExtensionKeys /\ e.k \notin SplitIndicators
                             /\ ~Has(acc, e.k)
                          THEN Put(acc, e.k, e.v)
                          ELSE acc
                  IN  FoldSeq(AddExtension, described, source_info)

\* A mutant of merge_servers that takes two servers for the same only when
\* their keys are in the same order.
merge_servers_key_order(existing, incoming) ==
    LET Add(acc, server) ==
            IF \E i \in 1..Len(acc) : acc[i] = server
            THEN acc
            ELSE Append(acc, server)
    IN  FoldSeq(Add, existing, incoming)

\* merger.py 143-150: servers of the file not yet in the target are appended.
merge_servers(existing, incoming) ==
    LET Add(acc, server) ==
            IF \E i \in 1..Len(acc) : dumps_sorted(acc[i]) = dumps_sorted(server)
            THEN acc
            ELSE Append(acc, server)
    IN  FoldSeq(Add, existing, incoming)

\* merger.py 151-160: existing_tags is built once, from the target's tags as
\* they were before the file; a name maps to the last tag object bearing it.
merge_tags(existing, incoming) ==
    LET names == {existing[i].name : i \in 1..Len(existing)}
        At(n) == CHOOSE i \in 1..Len(existing) :
                     existing[i].name = n /\ \A j \in (i + 1)..Len(existing) : existing[j].name # n
        Add(acc, tag) ==
            IF tag.name \notin names
            THEN Append(acc, tag)
            ELSE IF IsSome(tag.description) /\ ~IsSome(acc[At(tag.name)].description)
            THEN [acc EXCEPT ![At(tag.name)].description = tag.description]
            ELSE acc
    IN  FoldSeq(Add, existing, incoming)

\* OpenAPIMerger.merge_root_properties: the merged document after the call.
merge_root_properties(merged, doc) ==
    [merged EXCEPT
        !.servers = IF ~IsSome(doc.servers) THEN @
                    ELSE IF ~IsSome(@) THEN doc.servers
                    ELSE Some(merge_servers(Val(@), Val(doc.servers))),
        !.security = IF IsSome(doc.security) /\ ~IsSome(@) THEN doc.security ELSE @,
        !.tags = IF ~IsSome(doc.tags) THEN @
                 ELSE IF ~IsSome(@) THEN doc.tags
                 ELSE Some(merge_tags(Val(@), Val(doc.tags))),
        !.externalDocs = IF IsSome(doc.externalDocs) /\ ~IsSome(@) THEN doc.externalDocs ELSE @]

\* A mutant of merge_method that keeps the operation already in the target.
merge_method_keep_first(acc, e) ==
    [item  |-> IF Has(acc.item, e.k) THEN acc.item ELSE Put(acc.item, e.k, e.v),
     stats |-> [acc.stats EXCEPT
                   !.path_conflicts = IF Has(acc.item, e.k) THEN @ + 1 ELSE @,
                   !.operations_merged = IF e.k \in MethodSet THEN @ + 1 ELSE @]]

\* merger.py 181-188: one (method, operation) item of a path item; acc is
\* [item, stats].
merge_method(acc, e) ==
    [item  |-> Put(acc.item, e.k, e.v),
     stats |-> [acc.stats EXCEPT
                   !.path_conflicts = IF Has(acc.item, e.k) THEN @ + 1 ELSE @,
                   !.operations_merged = IF e.k \in MethodSet THEN @ + 1 ELSE @]]

\* A mutant of merge_path that replaces the path item already in the target.
merge_path_replace(acc, p) ==
    IF ~p.v.isdict THEN acc
    ELSE LET r == FoldSeq(merge_method, [item |-> <<>>, stats |-> acc.stats], p.v.m)
         IN  [paths |-> Put(acc.paths, p.k, [isdict |-> TRUE, m |-> r.item]),
              stats |-> [r.stats EXCEPT
                            !.paths_merged = IF Has(acc.paths, p.k) THEN @ ELSE @ + 1]]

\* merger.py 172-188: one (path, path_item) of the file; acc is [paths, stats].
merge_path(acc, p) ==
    IF ~p.v.isdict THEN acc
    ELSE LET known == Has(acc.paths, p.k)
             item0 == IF known THEN Get(acc.paths, p.k).m ELSE <<>>
             stats0 == [acc.stats EXCEPT !.paths_merged = IF known THEN @ ELSE @ + 1]
             r == FoldSeq(merge_method, [item |-> item0, stats |-> stats0], p.v.m)
         IN  [paths |-> Put(acc.paths, p.k, [isdict |-> TRUE, m |-> r.item]),
              stats |-> r.stats]

\* OpenAPIMerger.merge_paths: [paths, stats] after the call.
merge_paths(mpaths, st, doc) ==
    IF ~IsSome(doc.paths) THEN [paths |-> mpaths, stats |-> st]
    ELSE FoldSeq(merge_path, [paths |-> mpaths, stats |-> st], Val(doc.paths))

\* merger.py 215-219: the returned counts added to stats['component_conflicts'].
track_conflicts(component_conflicts, counts) ==
    LET Add(acc, ct) ==
            IF counts[ct] > 0
            THEN Put(acc, ct, (IF Has(acc, ct) THEN Get(acc, ct) ELSE 0) + counts[ct])
            ELSE acc
    IN  FoldSeq(Add, component_conflicts, COMPONENT_TYPES)

\* A mutant of clean_merged_spec that leaves a `components` mapping emptied
\* of its types in the document.
clean_merged_spec_keeps_key(merged) ==
    IF ~IsSome(merged.components) THEN merged
    ELSE [merged EXCEPT !.components =
             Some(SelectSeq(Val(merged.components), LAMBDA e : e.v # <<>>))]

\* OpenAPIMerger.clean_merged_spec
clean_merged_spec(merged) ==
    IF ~IsSome(merged.components) THEN merged
    ELSE LET kept == SelectSeq(Val(merged.components), LAMBDA e : e.v # <<>>)
         IN  [merged EXCEPT !.components = IF kept = <<>> THEN None ELSE Some(kept)]

\* A mutant of merge_file that goes on after the conflict error.
merge_file_goes_on(merged, st, doc, strategy) ==
    LET m2 == [merged EXCEPT !.info = Some(merge_info(Val(merged.info), st.files_processed, doc))]
        m3 == merge_root_properties(m2, doc)
        mc == merge_components(Val(m3.components), Val(doc.components), strategy)
        m4 == IF IsSome(doc.components) THEN [m3 EXCEPT !.components = Some(mc.target)] ELSE m3
        mp == merge_paths(Val(m4.paths), st, doc)
    IN  [merged |-> [m4 EXCEPT !.paths = Some(mp.paths)],
         stats  |-> [mp.stats EXCEPT !.files_processed = @ + 1],
         err    |-> FALSE]

\* A mutant of merge_file that copies the version of every file.
merge_file_every_version(merged, st, doc, strategy) ==
    LET m1 == IF IsSome(doc.openapi) THEN [merged EXCEPT !.openapi = doc.openapi]
              ELSE IF IsSome(doc.swagger) THEN [merged EXCEPT !.swagger = doc.swagger]
              ELSE merged
        m2 == [m1 EXCEPT !.info = Some(merge_info(Val(m1.info), st.files_processed, doc))]
        m3 == merge_root_properties(m2, doc)
        mc == merge_components(IF IsSome(m3.components) THEN Val(m3.components) ELSE <<>>,
                               Val(doc.components), strategy)
        m4 == IF IsSome(doc.components) THEN [m3 EXCEPT !.components = Some(mc.target)] ELSE m3
        err == IsSome(doc.components) /\ mc.err
        s4 == IF IsSome(doc.components) /\ ~err
              THEN [st EXCEPT !.component_conflicts = track_conflicts(@, mc.conflicts)]
              ELSE st
        mp == merge_paths(Val(m4.paths), s4, doc)
    IN  IF err THEN [merged |-> m4, stats |-> s4, err |-> TRUE]
        ELSE [merged |-> [m4 EXCEPT !.paths = Some(mp.paths)],
              stats  |-> [mp.stats EXCEPT !.files_processed = @ + 1],
              err    |-> FALSE]

\* merge_all 273-285 for one loaded file: the merged document and the stats
\* after it, and whether merge_components raised (then merge_paths and the
\* count of the file are not reached, and the returned counts are lost).
merge_file(merged, st, doc, strategy) ==
    LET m1 == IF st.files_processed = 0
              THEN IF IsSome(doc.openapi) THEN [merged EXCEPT !.openapi = doc.openapi]
                   ELSE IF IsSome(doc.swagger) THEN [merged EXCEPT !.swagger = doc.swagger]
                   ELSE merged
              ELSE merged
        m2 == [m1 EXCEPT !.info = Some(merge_info(Val(m1.info), st.files_processed, doc))]
        m3 == merge_root_properties(m2, doc)
        mc == merge_components(IF IsSome(m3.components) THEN Val(m3.components) ELSE <<>>,
                               Val(doc.components), strategy)
        m4 == IF IsSome(doc.components) THEN [m3 EXCEPT !.components = Some(mc.target)] ELSE m3
        err == IsSome(doc.components) /\ mc.err
        s4 == IF IsSome(doc.components) /\ ~err
              THEN [st EXCEPT !.component_conflicts = track_conflicts(@, mc.conflicts)]
              ELSE st
        mp == merge_paths(Val(m4.paths), s4, doc)
    IN  IF err THEN [merged |-> m4, stats |-> s4, err |-> TRUE]
        ELSE [merged |-> [m4 EXCEPT !.paths = Some(mp.paths)],
              stats  |-> [mp.stats EXCEPT !.files_processed = @ + 1],
              err    |-> FALSE]

(***************************************************************************)
(* merger.py: get_spec_files                                               *)
(***************************************************************************)
\* The characters of the model's file names, in code point order.
Alphabet ==
    <<" ", "-", ".", "/", "0", "1", "2", "3", "4", "5", "6", "7", "8", "9",
      "A", "I", "P", "_", "a", "b", "c", "d", "e", "f", "g", "h", "i", "j",
      "k", "l", "m", "n", "o", "p", "q", "r", "s", "t", "u", "v", "w", "x",
      "y", "z", "{", "}">>

char_rank(c) == CHOOSE i \in 1..Len(Alphabet) : Alphabet[i] = c

\* a < b for Python strings.
RECURSIVE str_less(_, _)
str_less(a, b) ==
    IF b = <<>> THEN FALSE
    ELSE IF a = <<>> THEN TRUE
    ELSE IF Head(a) = Head(b) THEN str_less(Tail(a), Tail(b))
    ELSE char_rank(Head(a)) < char_rank(Head(b))

\* sorted(names)
RECURSIVE sorted(_)
sorted(names) ==
    IF names = {} THEN <<>>
    ELSE LET least == CHOOSE n \in names : \A o \in names \ {n} : str_less(n, o)
         IN  <<least>> \o sorted(names \ {least})

ends_with(s, suffix) ==
    Len(s) >= Len(suffix) /\ SubSeq(s, Len(s) - Len(suffix) + 1, Len(s)) = suffix

\* glob("spec_*" + suffix)
glob_match(name, suffix) ==
    /\ Len(name) >= Len(S_spec) + Len(suffix)
    /\ SubSeq(name, 1, Len(S_spec)) = S_spec
    /\ ends_with(name, suffix)

\* A mutant of get_spec_files that leaves the globbed names in directory order.
get_spec_files_unsorted(dir, mfile) ==
    IF IsSome(mfile) /\ Val(mfile).ok /\ IsSome(Val(mfile).mapping.files)
    THEN LET listed == Val(Val(mfile).mapping.files)
         IN  SelectSeq([i \in 1..Len(listed) |-> listed[i].name], LAMBDA n : Has(dir, n))
    ELSE SelectSeq(Keys(dir), LAMBDA n :
                    \/ glob_match(n, S_json)
                    \/ glob_match(n, <<".", "y", "a", "m", "l">>)
                    \/ glob_match(n, <<".", "y", "m", "l">>))

\* OpenAPIMerger.get_spec_files: the names of the files to merge, in order.
\* mfile is split_mapping.json if the directory has one: .ok says json.load
\* parsed it, .mapping.files is its `files` key if it has one (load_mapping
\* 48-62 and the test `mapping and 'files' in mapping` at 73).
get_spec_files(dir, mfile) ==
    IF IsSome(mfile) /\ Val(mfile).ok /\ IsSome(Val(mfile).mapping.files)
    THEN LET listed == Val(Val(mfile).mapping.files)
         IN  SelectSeq([i \in 1..Len(listed) |-> listed[i].name], LAMBDA n : Has(dir, n))
    ELSE sorted({n \in KeySet(dir) :
                    \/ glob_match(n, S_json)
                    \/ glob_match(n, <<".", "y", "a", "m", "l">>)
                    \/ glob_match(n, <<".", "y", "m", "l">>)})

(***************************************************************************)
(* Inputs of the component merge.                                          *)
(***************************************************************************)
\* Definitions: DefX and DefXr are the same mapping in two key orders, DefY
\* differs from both.
DefX  == <<Entry("type", "object"), Entry("title", "X")>>
DefXr == <<Entry("title", "X"), Entry("type", "object")>>
DefY  == <<Entry("type", "string")>>

Definitions == {DefX, DefXr, DefY}

ComponentPool ==
    {<<>>}
    \cup {<<Entry("schemas", <<Entry("A", d)>>)>> : d \in Definitions}
    \cup {<<Entry("schemas", <<Entry("A", d), Entry("B", DefX)>>)>> : d \in {DefX, DefY}}
    \cup {<<Entry("schemas", <<Entry("B", DefY), Entry("A", DefY)>>)>>}
    \cup {<<Entry("responses", <<Entry("A", d)>>)>> : d \in {DefX, DefY}}
    \cup {<<Entry("responses", <<Entry("A", DefXr)>>), Entry("schemas", <<Entry("A", DefX)>>)>>}
    \cup {<<Entry("schemas", <<>>)>>}

Policies == {"keep_first", "keep_last", "error"}

(***************************************************************************)
(* Documents of the split runs.                                            *)
(***************************************************************************)
T_a == <<"a">>
T_b == <<"b">>

OpPlain == [summary |-> "plain", tags |-> None]
OpEmpty == [summary |-> "empty", tags |-> Some(<<>>)]
OpAB    == [summary |-> "ab", tags |-> Some(<<T_a, T_b>>)]
OpUT    == [summary |-> "ut", tags |-> Some(<<S_untagged>>)]

ItemGet  == [isdict |-> TRUE,
             m |-> <<Entry("parameters", [summary |-> "shared", tags |-> None]),
                     Entry("get", OpPlain)>>]
ItemMany == [isdict |-> TRUE,
             m |-> <<Entry("post", OpAB), Entry("get", OpUT), Entry("delete", OpEmpty)>>]
ItemBad  == [isdict |-> FALSE, m |-> <<>>]

ItemPool == {ItemGet, ItemMany, ItemBad}

P_bui  == <<"/", "{", "u", "}", "/", "i">>
P_u    == <<"/", "u">>
P_root == <<"/">>
P_up   == <<"/", "u", "_", "p", "a", "r", "t", "1">>

PathPool == {P_bui, P_u, P_root, P_up}

\* The `paths` mappings of at most MaxPaths paths.
PathsPool ==
    UNION {{[i \in 1..n |-> Entry(f[i][1], f[i][2])] :
               f \in {g \in [1..n -> PathPool \X ItemPool] :
                         \A i, j \in 1..n : i # j => g[i][1] # g[j][1]}} :
           n \in 0..MaxPaths}

T_Pet == <<"P", "e", "t">>

BaseDoc ==
    [openapi      |-> Some("3.0.3"),
     swagger      |-> None,
     info         |-> Some(<<Entry("title", T_Pet), Entry("version", <<"2.0">>)>>),
     paths        |-> None,
     components   |-> Some(<<Entry("schemas", <<Entry("A", DefX)>>)>>),
     servers      |-> Some(<< <<Entry("url", "https://x")>> >>),
     security     |-> None,
     tags         |-> Some(<<[name |-> T_a, description |-> Some("about a")],
                             [name |-> T_b, description |-> None]>>),
     externalDocs |-> None]

SplitDocs == {BaseDoc} \cup {[BaseDoc EXCEPT !.paths = Some(ps)] : ps \in PathsPool}

Methods == {"tags", "path", "size"}

NoMapping == [type |-> "none", files |-> <<>>]

ComponentsIdle ==
    /\ target = <<>>
    /\ target0 = <<>>
    /\ prev_target = <<>>
    /\ sources = <<>>
    /\ conflicts = NoConflicts
    /\ raised = FALSE
    /\ self_merged = FALSE
    /\ policy = "keep_first"

MergerFresh ==
    /\ conflict_strategy = "keep_first"
    /\ spec_files = <<>>
    /\ file_idx = 1
    /\ merged_spec = merged_skeleton
    /\ stats = initial_stats
    /\ merged_file = None

\* No read-only query has been made.
QueryIdle ==
    /\ loaded = <<>>
    /\ issues = None
    /\ op_counts = None
    /\ operations = None
    /\ analysis = None

PipelineIdle ==
    /\ pc = "idle"
    /\ QueryIdle
    /\ spec = BaseDoc
    /\ common_components = <<>>
    /\ method = "tags"
    /\ max_operations = 1
    /\ pending = <<>>
    /\ mapping = NoMapping
    /\ mini_spec = None
    /\ include_components = TRUE
    /\ output_dir = <<>>
    /\ mapping_file = None
    /\ MergerFresh

(***************************************************************************)
(* Direct calls of ComponentExtractor.merge_components.                    *)
(***************************************************************************)
InitComp ==
    /\ target \in ComponentPool
    /\ target0 = target
    /\ prev_target = target
    /\ sources = <<>>
    /\ conflicts = NoConflicts
    /\ raised = FALSE
    /\ self_merged = FALSE
    /\ policy \in Policies
    /\ PipelineIdle

CallMerge(source, self) ==
    /\ ~raised
    /\ Len(sources) < MaxMerges
    /\ LET r == merge_components(target, source, policy)
       IN  /\ target' = r.target
           /\ conflicts' = r.conflicts
           /\ raised' = r.err
    /\ prev_target' = target
    /\ sources' = Append(sources, source)
    /\ self_merged' = self
    /\ UNCHANGED <<target0, policy, pc, split_vars, dir_vars, merge_vars, query_vars>>

\* merge_components(target, source, policy) with a source read from a file.
MergeSource == \E source \in ComponentPool : CallMerge(source, FALSE)

\* merge_components(C, C, policy): the target is its own source.
MergeSelf == CallMerge(target, TRUE)

NextComp == MergeSource \/ MergeSelf

SpecComp == InitComp /\ [][NextComp]_vars

(***************************************************************************)
(* The split run (cmd_split and the three split methods of the splitter).  *)
(***************************************************************************)
\* The splitter as constructed from a source document (splitter.py 15-35).
SplitterOn(docs, ops) ==
    /\ pc = "split"
    /\ spec \in docs
    /\ common_components = extract_components(spec)
    /\ method \in Methods
    /\ max_operations \in (IF method = "tags" THEN {1} ELSE ops)
    /\ pending = <<>>
    /\ mapping = NoMapping
    /\ mini_spec = None
    /\ include_components = TRUE
    /\ output_dir = <<>>
    /\ mapping_file = None
    /\ MergerFresh
    /\ ComponentsIdle
    /\ QueryIdle

InitSplit == SplitterOn(SplitDocs, 1..MaxOps)

\* range(0, n, 0) raises ValueError (splitter.py 138, 310).
split_raises ==
    \/ method = "path" /\ chunking_raises(spec, max_operations)
    \/ method = "size" /\ max_operations = 0 /\ get_operations(spec) # <<>>

\* `if not grouped` / `if not all_endpoints`: the run returns an empty manifest
\* and writes nothing (splitter.py 217-219, 261-263, 304-306).
split_is_empty ==
    IF method = "size" THEN get_operations(spec) = <<>>
    ELSE planned_files(spec, method, max_operations) = <<>>

\* split_by_*: the groups are computed.
SplitBegin ==
    /\ pc = "split"
    /\ IF split_raises
       THEN /\ pc' = "split_failed"
            /\ UNCHANGED <<pending, mapping>>
       ELSE IF split_is_empty
       THEN /\ pc' = "split_empty"
            /\ mapping' = [type |-> mapping_type(method), files |-> <<>>]
            /\ UNCHANGED pending
       ELSE /\ pc' = "writing"
            /\ mapping' = [type |-> mapping_type(method), files |-> <<>>]
            /\ pending' = planned_files(spec, method, max_operations)
    /\ UNCHANGED <<spec, common_components, method, max_operations,
                   mini_spec, include_components,
                   comp_vars, dir_vars, merge_vars, query_vars>>

\* One pass of the loop of split_by_*: the mini-document of the next group is
\* built, saved under its file name, and entered in the manifest.
WriteGroup ==
    /\ pc = "writing"
    /\ pending # <<>>
    /\ LET g == Head(pending)
           mini == create_mini_spec(spec, common_components, g.endpoints, g.label, TRUE)
       IN  /\ output_dir' = Put(output_dir, g.name, [ok |-> TRUE, doc |-> mini])
           /\ mini_spec' = Some(mini)
           /\ spec' = source_after(spec, mini, mini_spec_shares)
           /\ mapping' = [mapping EXCEPT !.files =
                             Append(@, [name           |-> g.name,
                                        label          |-> g.label,
                                        endpoint_count |-> Len(g.endpoints),
                                        path_count     |-> path_count(g.endpoints)])]
    /\ pending' = Tail(pending)
    /\ include_components' = TRUE
    /\ UNCHANGED <<pc, common_components, method, max_operations,
                   mapping_file, comp_vars, merge_vars, query_vars>>

\* json.dump(mapping, f) (splitter.py 241-243): the manifest as a file, with
\* its `files` key.
dump_mapping(m) == [type |-> m.type, files |-> Some(m.files)]

\* The manifest is written to split_mapping.json after the loop.
WriteMapping ==
    /\ pc = "writing"
    /\ pending = <<>>
    /\ mapping_file' = Some([ok |-> TRUE, mapping |-> dump_mapping(mapping)])
    /\ pc' = "split_done"
    /\ UNCHANGED <<split_vars, output_dir, comp_vars, merge_vars, query_vars>>

(***************************************************************************)
(* The merge run (cmd_merge, OpenAPIMerger.merge_all).                     *)
(***************************************************************************)
\* merge_all 255-258 on a fresh OpenAPIMerger over the split directory.
MergeBegin ==
    /\ pc \in {"split_done", "split_empty", "merge"}
    /\ \E strategy \in Policies : conflict_strategy' = strategy
    /\ spec_files' = get_spec_files(output_dir, mapping_file)
    /\ pc' = IF spec_files' = <<>> THEN "merge_failed" ELSE "merging"
    /\ UNCHANGED <<file_idx, merged_spec, stats, merged_file,
                   comp_vars, split_vars, dir_vars, query_vars>>

\* A mutant of MergeFile in which a load failure ends the merge.
MergeFile_load_failure_aborts ==
    /\ pc = "merging"
    /\ file_idx <= Len(spec_files)
    /\ LET file == Get(output_dir, spec_files[file_idx])
       IN  IF ~file.ok
           THEN pc' = "merge_failed" /\ UNCHANGED <<merged_spec, stats>>
           ELSE LET r == merge_file(merged_spec, stats, file.doc, conflict_strategy)
                IN  /\ merged_spec' = r.merged
                    /\ stats' = r.stats
                    /\ pc' = IF r.err THEN "merge_failed" ELSE pc
    /\ file_idx' = file_idx + 1
    /\ UNCHANGED <<conflict_strategy, spec_files, merged_file,
                   comp_vars, split_vars, dir_vars, query_vars>>

\* One pass of the loop of merge_all (263-285).
MergeFile ==
    /\ pc = "merging"
    /\ file_idx <= Len(spec_files)
    /\ LET file == Get(output_dir, spec_files[file_idx])
       IN  IF ~file.ok
           THEN UNCHANGED <<pc, merged_spec, stats>>
           ELSE LET r == merge_file(merged_spec, stats, file.doc, conflict_strategy)
                IN  /\ merged_spec' = r.merged
                    /\ stats' = r.stats
                    /\ pc' = IF r.err THEN "merge_failed" ELSE pc
    /\ file_idx' = file_idx + 1
    /\ UNCHANGED <<conflict_strategy, spec_files, merged_file,
                   comp_vars, split_vars, dir_vars, query_vars>>

\* merge_all 287-292: clean_merged_spec, then save_spec.
MergeFinish ==
    /\ pc = "merging"
    /\ file_idx > Len(spec_files)
    /\ merged_spec' = clean_merged_spec(merged_spec)
    /\ merged_file' = Some(merged_spec')
    /\ pc' = "done"
    /\ UNCHANGED <<conflict_strategy, spec_files, file_idx, stats,
                   comp_vars, split_vars, dir_vars, query_vars>>

NextSplit == SplitBegin \/ WriteGroup \/ WriteMapping \/ MergeBegin \/ MergeFile \/ MergeFinish

\* A split run of a source document followed by a merge of its directory.
Spec == InitSplit /\ [][NextSplit]_vars

(***************************************************************************)
(* Split runs over documents of any title, one operation tagged with the   *)
(* group label.                                                            *)
(***************************************************************************)
TitleChars == {"a", " ", "-"}

Titles == UNION {[1..n -> TitleChars] : n \in 0..MaxTitleLen}

Labels == {<<"p">>, <<"-">>, <<"p", " ", "-", " ", "q">>}

TitleDocs ==
    {[BaseDoc EXCEPT
         !.info = Some(<<Entry("title", t), Entry("version", <<"2.0">>)>>),
         !.paths = Some(<<Entry(P_u, [isdict |-> TRUE,
                                      m |-> <<Entry("get", [summary |-> "one",
                                                            tags |-> Some(<<l>>)])>>])>>)] :
        t \in Titles, l \in Labels}

InitTitle == SplitterOn(TitleDocs, {1})

SpecTitle == InitTitle /\ [][NextSplit]_vars

(***************************************************************************)
(* Mini-documents of sources of any version keys and any components, by a  *)
(* direct call of create_mini_spec or by a split run and its merge.        *)
(***************************************************************************)
T_a_b  == <<"a", " ", "b">>
T_a_b_ == <<"a", "_", "b">>

OpSpace == [summary |-> "space", tags |-> Some(<<T_a_b>>)]
OpUnder == [summary |-> "under", tags |-> Some(<<T_a_b_, T_a>>)]

ItemSan == [isdict |-> TRUE, m |-> <<Entry("post", OpUnder), Entry("get", OpSpace)>>]

MiniPaths ==
    {None,
     Some(<<Entry(P_u, ItemMany), Entry(P_root, ItemGet)>>),
     Some(<<Entry(P_bui, ItemSan)>>)}

MiniVersions == {<<None, None>>, <<Some("3.0.3"), None>>, <<None, Some("2.0")>>,
                 <<Some("3.0.3"), Some("2.0")>>}

MiniComponents ==
    {None,
     Some(<<>>),
     Some(<<Entry("schemas", <<>>)>>),
     Some(<<Entry("responses", <<Entry("A", DefY)>>),
            Entry("schemas", <<Entry("A", DefX), Entry("B", DefY)>>),
            Entry("headers", <<>>)>>)}

MiniDocs ==
    {[BaseDoc EXCEPT !.openapi = v[1], !.swagger = v[2], !.components = c, !.paths = ps] :
        v \in MiniVersions, c \in MiniComponents, ps \in MiniPaths}
    \cup {[BaseDoc EXCEPT !.info = None, !.tags = None, !.servers = None, !.paths = ps] :
             ps \in MiniPaths}

InitMini == SplitterOn(MiniDocs, 1..MaxOps)

\* A call of create_mini_spec on the splitter as constructed, with the first
\* n operations of the source as its endpoints.
CreateMiniSpec ==
    /\ pc = "split"
    /\ \E n \in 0..Len(get_operations(spec)), name \in {<<"p">>}, inc \in BOOLEAN :
          LET endpoints == SubSeq(get_operations(spec), 1, n)
              mini == create_mini_spec(spec, common_components, endpoints, name, inc)
          IN  /\ mini_spec' = Some(mini)
              /\ include_components' = inc
              /\ spec' = source_after(spec, mini, mini_spec_shares)
    /\ pc' = "mini_made"
    /\ UNCHANGED <<common_components, method, max_operations, pending, mapping,
                   comp_vars, dir_vars, merge_vars, query_vars>>

NextMini ==
    \/ CreateMiniSpec
    \/ SplitBegin \/ WriteGroup \/ WriteMapping
    \/ MergeBegin \/ MergeFile \/ MergeFinish

SpecMini == InitMini /\ [][NextMini]_vars

(***************************************************************************)
(* Split runs with any integer chunk size, zero and negative included.     *)
(***************************************************************************)
ChunkPaths ==
    {None,
     Some(<<Entry(P_u, ItemMany), Entry(P_root, ItemGet)>>),
     Some(<<Entry(P_bui, ItemSan), Entry(P_u, ItemGet)>>),
     Some(<<Entry(P_root, ItemBad), Entry(P_u, ItemMany)>>)}

ChunkDocs == {[BaseDoc EXCEPT !.paths = ps] : ps \in ChunkPaths}

InitChunk == SplitterOn(ChunkDocs, (0 - 2)..MaxOps)

SpecChunk == InitChunk /\ [][NextSplit]_vars

(***************************************************************************)
(* Merge runs over a directory of any files.                               *)
(***************************************************************************)
MergeBase ==
    [openapi      |-> Some("3.0.3"),
     swagger      |-> None,
     info         |-> Some(<<Entry("title", T_Pet \o S_sep \o <<"p">>),
                            Entry("version", <<"2.0">>),
                            Entry("x-split-part", <<"p">>),
                            Entry("x-split-timestamp", <<"st_mtime">>)>>),
     paths        |-> None,
     components   |-> None,
     servers      |-> None,
     security     |-> None,
     tags         |-> None,
     externalDocs |-> None]

Loaded(doc) == [ok |-> TRUE, doc |-> doc]

\* A file that load_spec fails on.
Unloadable == [ok |-> FALSE, doc |-> MergeBase]

FilePool ==
    { Loaded([MergeBase EXCEPT
                 !.components = Some(<<Entry("schemas", <<Entry("A", DefX)>>)>>),
                 !.paths = Some(<<Entry(P_u, ItemGet)>>)]),
      Loaded([MergeBase EXCEPT
                 !.components = Some(<<Entry("schemas", <<Entry("B", DefY), Entry("A", DefY)>>)>>),
                 !.paths = Some(<<Entry(P_u, ItemMany), Entry(P_root, ItemBad)>>)]),
      Loaded([MergeBase EXCEPT
                 !.components = Some(<<Entry("schemas", <<Entry("A", DefXr)>>)>>),
                 !.paths = Some(<<Entry(P_root, ItemGet)>>)]),
      Loaded([MergeBase EXCEPT
                 !.components = Some(<<Entry("responses", <<Entry("A", DefX)>>),
                                       Entry("schemas", <<Entry("A", DefY)>>)>>)]),
      Loaded([MergeBase EXCEPT !.paths = Some(<<Entry(P_bui, ItemMany)>>)]),
      Unloadable }

\* The name of the i-th file of the directory.
FileName(i) == S_spec \o str(i) \o S_json

Directories ==
    UNION {{[i \in 1..n |-> Entry(FileName(i), f[i])] : f \in [1..n -> FilePool]} :
           n \in 0..MaxFiles}

\* The manifest naming the files of the directory in order.
ManifestOf(dir) ==
    [type  |-> "size-based",
     files |-> [i \in 1..Len(dir) |->
                   [name |-> dir[i].k, label |-> str(i),
                    endpoint_count |-> Len(get_operations(dir[i].v.doc)),
                    path_count |-> Len(paths_of(dir[i].v.doc))]]]

InitMerge ==
    /\ pc = "merge"
    /\ spec = BaseDoc
    /\ common_components = <<>>
    /\ method = "size"
    /\ max_operations = 1
    /\ pending = <<>>
    /\ mapping = NoMapping
    /\ mini_spec = None
    /\ include_components = TRUE
    /\ output_dir \in Directories
    /\ mapping_file \in {None, Some([ok |-> TRUE, mapping |-> dump_mapping(ManifestOf(output_dir))])}
    /\ MergerFresh
    /\ ComponentsIdle
    /\ QueryIdle

NextMerge == MergeBegin \/ MergeFile \/ MergeFinish

SpecMerge == InitMerge /\ [][NextMerge]_vars

(***************************************************************************)
(* Merge runs over directories of files of any names, with any manifest.   *)
(***************************************************************************)
N_spec_b  == S_spec \o <<"b">> \o S_json
N_spec_a  == S_spec \o <<"a", ".", "y", "a", "m", "l">>
N_spec_   == S_spec \o <<".", "y", "m", "l">>
N_spec_c  == S_spec \o <<"c", ".", "t", "x", "t">>
N_notes   == <<"n", "o", "t", "e", "s">> \o S_json
N_gone    == S_spec \o <<"g", "o", "n", "e">> \o S_json

\* The names a directory may hold, in the order the directory lists them.
NamePool == <<N_spec_b, N_spec_a, N_spec_, N_spec_c, N_notes>>

\* The names a manifest may list: N_gone is in no directory.
ListedNames == {N_spec_b, N_spec_a, N_notes, N_gone}

NamedFile(n) ==
    IF n = N_spec_ THEN Unloadable
    ELSE Loaded([MergeBase EXCEPT !.paths = Some(<<Entry(P_u, ItemGet)>>)])

NamedDirectories ==
    {LET names == SelectSeq(NamePool, LAMBDA n : n \in chosen)
     IN  [i \in 1..Len(names) |-> Entry(names[i], NamedFile(names[i]))] :
        chosen \in SUBSET {NamePool[i] : i \in 1..Len(NamePool)}}

ManifestEntry(n) == [name |-> n, label |-> n, endpoint_count |-> 1, path_count |-> 1]

\* split_mapping.json: absent, not parseable, parseable without a `files`
\* key, or listing at most MaxListed names.
ManifestFiles ==
    {None,
     Some([ok |-> FALSE, mapping |-> [type |-> "size-based", files |-> None]]),
     Some([ok |-> TRUE, mapping |-> [type |-> "size-based", files |-> None]])}
    \cup UNION {{Some([ok |-> TRUE,
                       mapping |-> [type |-> "size-based",
                                    files |-> Some([i \in 1..n |-> ManifestEntry(f[i])])]]) :
                    f \in [1..n -> ListedNames]} :
                n \in 0..MaxListed}

InitDiscover ==
    /\ pc = "merge"
    /\ spec = BaseDoc
    /\ common_components = <<>>
    /\ method = "size"
    /\ max_operations = 1
    /\ pending = <<>>
    /\ mapping = NoMapping
    /\ mini_spec = None
    /\ include_components = TRUE
    /\ output_dir \in NamedDirectories
    /\ mapping_file \in ManifestFiles
    /\ MergerFresh
    /\ ComponentsIdle
    /\ QueryIdle

SpecDiscover == InitDiscover /\ [][NextMerge]_vars

(***************************************************************************)
(* Merge runs over files of any version keys and any `info`.               *)
(***************************************************************************)
HeadPool ==
    { Loaded([MergeBase EXCEPT !.paths = Some(<<Entry(P_u, ItemGet)>>)]),
      Loaded([MergeBase EXCEPT
                 !.openapi = None,
                 !.swagger = Some("2.0"),
                 !.info = Some(<<Entry("title", <<"b">>),
                                 Entry("version", <<"9">>),
                                 Entry("description", <<"d2">>),
                                 Entry("x-logo", <<"l2">>),
                                 Entry("x-split-part", <<"q">>)>>)]),
      Loaded([MergeBase EXCEPT !.openapi = None, !.info = None]),
      Loaded([MergeBase EXCEPT
                 !.openapi = Some("3.1.1"),
                 !.info = Some(<<Entry("description", <<"d4">>),
                                 Entry("title", <<"c">>),
                                 Entry("x-logo", <<"l4">>),
                                 Entry("x-owner", <<"o4">>),
                                 Entry("x-split-timestamp", <<"t4">>)>>)]),
      Loaded([MergeBase EXCEPT
                 !.openapi = Some("3.0.0"),
                 !.swagger = Some("1.2"),
                 !.info = Some(<<Entry("version", <<"5">>)>>)]),
      Unloadable }

HeadDirectories ==
    UNION {{[i \in 1..n |-> Entry(FileName(i), f[i])] : f \in [1..n -> HeadPool]} :
           n \in 0..MaxFiles}

InitHead ==
    /\ pc = "merge"
    /\ spec = BaseDoc
    /\ common_components = <<>>
    /\ method = "size"
    /\ max_operations = 1
    /\ pending = <<>>
    /\ mapping = NoMapping
    /\ mini_spec = None
    /\ include_components = TRUE
    /\ output_dir \in HeadDirectories
    /\ mapping_file \in {None, Some([ok |-> TRUE, mapping |-> dump_mapping(ManifestOf(output_dir))])}
    /\ MergerFresh
    /\ ComponentsIdle
    /\ QueryIdle

SpecHead == InitHead /\ [][NextMerge]_vars

(***************************************************************************)
(* Merge runs over files of any `servers`, `security`, `tags` and          *)
(* `externalDocs`, some with component types that hold no definition.      *)
(***************************************************************************)
\* Servers: Srv1 and Srv1r are the same mapping in two key orders.
Srv1  == <<Entry("url", "https://x"), Entry("description", "x")>>
Srv1r == <<Entry("description", "x"), Entry("url", "https://x")>>
Srv2  == <<Entry("url", "https://y")>>
Srv3  == <<Entry("url", "https://x")>>

Tag(n, d) == [name |-> n, description |-> d]

T_c == <<"c">>

RootFile(srv, sec, tgs, ext, cmp) ==
    Loaded([MergeBase EXCEPT !.servers = srv, !.security = sec, !.tags = tgs,
                             !.externalDocs = ext, !.components = cmp])

RootPool ==
    { RootFile(Some(<<Srv1>>), Some(<<"key">>), Some(<<Tag(T_a, None)>>), None,
               Some(<<Entry("schemas", <<>>)>>)),
      RootFile(Some(<<Srv1r, Srv2>>), Some(<<"oauth">>),
               Some(<<Tag(T_a, Some("about a")), Tag(T_b, None)>>), Some("docs2"),
               Some(<<Entry("headers", <<>>), Entry("schemas", <<Entry("A", DefX)>>)>>)),
      RootFile(Some(<<Srv2, Srv3, Srv2>>), None,
               Some(<<Tag(T_b, Some("about b")), Tag(T_b, Some("b again"))>>), Some("docs3"),
               None),
      RootFile(None, None, None, None, Some(<<>>)),
      RootFile(Some(<<Srv3, Srv1, Srv3>>), Some(<<>>),
               Some(<<Tag(T_c, None), Tag(T_a, Some("a again")), Tag(T_c, Some("about c"))>>),
               None, None),
      Unloadable }

RootDirectories ==
    UNION {{[i \in 1..n |-> Entry(FileName(i), f[i])] : f \in [1..n -> RootPool]} :
           n \in 0..MaxFiles}

InitRoot ==
    /\ pc = "merge"
    /\ spec = BaseDoc
    /\ common_components = <<>>
    /\ method = "size"
    /\ max_operations = 1
    /\ pending = <<>>
    /\ mapping = NoMapping
    /\ mini_spec = None
    /\ include_components = TRUE
    /\ output_dir \in RootDirectories
    /\ mapping_file \in {None, Some([ok |-> TRUE, mapping |-> dump_mapping(ManifestOf(output_dir))])}
    /\ MergerFresh
    /\ ComponentsIdle
    /\ QueryIdle

SpecRoot == InitRoot /\ [][NextMerge]_vars

(***************************************************************************)
(* Read-only queries over a loaded document.  Here a loaded value is a     *)
(* JSON tree: a string, a list of values, or a mapping of keys to values.  *)
(***************************************************************************)
JStr(x)  == [kind |-> "str", v |-> x]
JList(x) == [kind |-> "list", v |-> x]
JDict(x) == [kind |-> "dict", v |-> x]

\* isinstance(value, dict)
is_dict(value) == value.kind = "dict"

\* No command is running: the splitter, the merger and the component merge
\* are as constructed.
EngineIdle ==
    /\ spec = BaseDoc
    /\ common_components = <<>>
    /\ method = "tags"
    /\ max_operations = 1
    /\ pending = <<>>
    /\ mapping = NoMapping
    /\ mini_spec = None
    /\ include_components = TRUE
    /\ output_dir = <<>>
    /\ mapping_file = None
    /\ MergerFresh
    /\ ComponentsIdle

(***************************************************************************)
(* core.py: validate_spec_structure                                        *)
(***************************************************************************)
I_version    == "Missing OpenAPI/Swagger version field"
I_info       == "Missing 'info' object"
I_info_type  == "'info' must be an object"
I_title      == "Missing 'info.title'"
I_info_ver   == "Missing 'info.version'"
I_paths      == "Missing 'paths' object"
I_paths_type == "'paths' must be an object"
I_paths_none == "'paths' is empty"
I_components == "'components' must be an object"

\* A mutant of validate_spec_structure that checks `info` before the version.
validate_spec_structure_info_first(root) ==
    (IF ~Has(root, "info") THEN <<I_info>>
     ELSE IF ~is_dict(Get(root, "info")) THEN <<I_info_type>>
     ELSE (IF ~Has(Get(root, "info").v, "title") THEN <<I_title>> ELSE <<>>)
          \o (IF ~Has(Get(root, "info").v, "version") THEN <<I_info_ver>> ELSE <<>>))
    \o (IF ~Has(root, "openapi") /\ ~Has(root, "swagger") THEN <<I_version>> ELSE <<>>)
    \o (IF ~Has(root, "paths") THEN <<I_paths>>
        ELSE IF ~is_dict(Get(root, "paths")) THEN <<I_paths_type>>
        ELSE IF Get(root, "paths").v = <<>> THEN <<I_paths_none>>
        ELSE <<>>)
    \o (IF Has(root, "components") /\ ~is_dict(Get(root, "components"))
        THEN <<I_components>> ELSE <<>>)

\* validate_spec_structure(spec): the issues, in the order they are appended.
validate_spec_structure(root) ==
    (IF ~Has(root, "openapi") /\ ~Has(root, "swagger") THEN <<I_version>> ELSE <<>>)
    \o (IF ~Has(root, "info") THEN <<I_info>>
        ELSE IF ~is_dict(Get(root, "info")) THEN <<I_info_type>>
        ELSE (IF ~Has(Get(root, "info").v, "title") THEN <<I_title>> ELSE <<>>)
             \o (IF ~Has(Get(root, "info").v, "version") THEN <<I_info_ver>> ELSE <<>>))
    \o (IF ~Has(root, "paths") THEN <<I_paths>>
        ELSE IF ~is_dict(Get(root, "paths")) THEN <<I_paths_type>>
        ELSE IF Get(root, "paths").v = <<>> THEN <<I_paths_none>>
        ELSE <<>>)
    \o (IF Has(root, "components") /\ ~is_dict(Get(root, "components"))
        THEN <<I_components>> ELSE <<>>)

\* The shapes of the documents given to the validator.
VersionShapes == {"none", "openapi", "swagger", "both"}
InfoShapes == {"absent", "string", "empty", "title", "version", "both"}
PathsShapes == {"absent", "list", "empty", "one"}
ComponentsShapes == {"absent", "mapping", "string"}

\* The root mapping of a document of the given shapes.
ValidatorDoc(ver, inf, pth, cmp) ==
    (IF ver \in {"swagger", "both"} THEN <<Entry("swagger", JStr("2.0"))>> ELSE <<>>)
    \o (IF inf = "absent" THEN <<>>
        ELSE IF inf = "string" THEN <<Entry("info", JStr("Pet"))>>
        ELSE <<Entry("info", JDict(
                 (IF inf \in {"version", "both"} THEN <<Entry("version", JStr("2.0"))>> ELSE <<>>)
                 \o <<Entry("description", JStr("d"))>>
                 \o (IF inf \in {"title", "both"} THEN <<Entry("title", JStr("Pet"))>> ELSE <<>>)))>>)
    \o (IF cmp = "absent" THEN <<>>
        ELSE IF cmp = "string" THEN <<Entry("components", JStr("c"))>>
        ELSE <<Entry("components", JDict(<<>>))>>)
    \o (IF pth = "absent" THEN <<>>
        ELSE IF pth = "list" THEN <<Entry("paths", JList(<<>>))>>
        ELSE IF pth = "empty" THEN <<Entry("paths", JDict(<<>>))>>
        ELSE <<Entry("paths", JDict(<<Entry("/u", JDict(<<>>))>>))>>)
    \o (IF ver \in {"openapi", "both"} THEN <<Entry("openapi", JStr("3.0.3"))>> ELSE <<>>)

InitValidate ==
    /\ pc = "query"
    /\ \E ver \in VersionShapes, inf \in InfoShapes, pth \in PathsShapes,
          cmp \in ComponentsShapes :
          loaded = ValidatorDoc(ver, inf, pth, cmp)
    /\ issues = None
    /\ op_counts = None
    /\ operations = None
    /\ analysis = None
    /\ EngineIdle

\* cmd_validate / OpenAPIAnalyzer.validate: validate_spec_structure(spec).
Validate ==
    /\ pc = "query"
    /\ issues = None
    /\ issues' = Some(validate_spec_structure(loaded))
    /\ UNCHANGED <<pc, loaded, op_counts, operations, analysis,
                   comp_vars, split_vars, dir_vars, merge_vars>>

NextValidate == Validate

SpecValidate == InitValidate /\ [][NextValidate]_vars

(***************************************************************************)
(* analyzer.py: OpenAPIAnalyzer.analyze_components                         *)
(***************************************************************************)
\* f"#/components/{comp_type}/{name}": the reference string, as its segments.
component_ref(comp_type, name) == <<"#", "components", comp_type, name>>

\* count_refs(obj, refs_found) (analyzer.py 124-133): .n is the returned
\* count, .refs what the call adds to refs_found.  A mapping that holds a
\* `$ref` key counts 1 and its other values are not gone into.
RECURSIVE count_refs(_)
count_refs(obj) ==
    LET Sum(values) ==
            LET parts == [i \in 1..Len(values) |-> count_refs(values[i])]
                Add(acc, part) == [n |-> acc.n + part.n, refs |-> acc.refs \cup part.refs]
            IN  FoldSeq(Add, [n |-> 0, refs |-> {}], parts)
    IN  IF obj.kind = "dict"
        THEN IF Has(obj.v, "$ref")
             THEN [n |-> 1, refs |-> {Get(obj.v, "$ref").v}]
             ELSE Sum([i \in 1..Len(obj.v) |-> obj.v[i].v])
        ELSE IF obj.kind = "list" THEN Sum(obj.v)
        ELSE [n |-> 0, refs |-> {}]

\* analyze_components (analyzer.py 94-145) on the root mapping of self.spec.
\* reusability_score is the quotient num / den of the true division at 140.
analyze_components(root) ==
    LET components == IF Has(root, "components") THEN Get(root, "components").v ELSE <<>>
        present == SelectSeq(COMPONENT_TYPES, LAMBDA t : Has(components, t))
        component_counts ==
            [i \in 1..Len(present) |-> Entry(present[i], Len(Get(components, present[i]).v))]
        unique_refs ==
            UNION {{component_ref(present[i], Get(components, present[i]).v[j].k) :
                       j \in 1..Len(Get(components, present[i]).v)} :
                   i \in 1..Len(present)}
        scan == count_refs(JDict(root))
        refs_actually_used == scan.refs \cap unique_refs
    IN  IF unique_refs # {}
        THEN [has_components    |-> components # <<>>,
              component_counts  |-> component_counts,
              reusability_score |-> [num |-> Cardinality(refs_actually_used),
                                     den |-> Cardinality(unique_refs)],
              unused_components |-> Some(Cardinality(unique_refs \ refs_actually_used)),
              total_references  |-> Some(scan.n)]
        ELSE [has_components    |-> components # <<>>,
              component_counts  |-> component_counts,
              reusability_score |-> [num |-> 0, den |-> 1],
              unused_components |-> None,
              total_references  |-> None]

\* The documents given to the analyzer.
R_A == component_ref("schemas", "A")
R_B == component_ref("schemas", "B")
R_respA == component_ref("responses", "A")
R_foreign == <<"#", "definitions", "A">>

RefTo(r) == JDict(<<Entry("$ref", JStr(r))>>)

PlainSchema == JDict(<<Entry("type", JStr(<<"object">>))>>)

SchemaShapes == {"absent", "empty", "A", "AB", "B_refs_A", "B_refs_B"}
ResponseShapes == {"absent", "A"}
UseShapes == {"none", "A", "A_twice", "B", "response_A", "foreign", "sibling", "nested"}

SchemasOf(sch) ==
    CASE sch = "empty"    -> <<>>
      [] sch = "A"        -> <<Entry("A", PlainSchema)>>
      [] sch = "AB"       -> <<Entry("A", PlainSchema), Entry("B", PlainSchema)>>
      [] sch = "B_refs_A" -> <<Entry("B", JDict(<<Entry("items", RefTo(R_A))>>)),
                               Entry("A", PlainSchema)>>
      [] sch = "B_refs_B" -> <<Entry("A", PlainSchema),
                               Entry("B", JDict(<<Entry("items", RefTo(R_B))>>))>>

\* The value under paths./u.get of the document.
UseOf(use) ==
    CASE use = "none"       -> JDict(<<>>)
      [] use = "A"          -> JDict(<<Entry("schema", RefTo(R_A))>>)
      [] use = "A_twice"    -> JDict(<<Entry("anyOf", JList(<<RefTo(R_A), RefTo(R_A)>>))>>)
      [] use = "B"          -> JDict(<<Entry("schema", RefTo(R_B))>>)
      [] use = "response_A" -> JDict(<<Entry("responses", JDict(<<Entry("200", RefTo(R_respA))>>))>>)
      [] use = "foreign"    -> JDict(<<Entry("schema", RefTo(R_foreign))>>)
      [] use = "sibling"    -> JDict(<<Entry("schema",
                                   JDict(<<Entry("properties",
                                               JDict(<<Entry("b", RefTo(R_B))>>)),
                                           Entry("$ref", JStr(R_A))>>))>>)
      [] use = "nested"     -> JDict(<<Entry("parameters",
                                   JList(<<JStr(<<"p">>),
                                           JDict(<<Entry("schema", RefTo(R_B))>>)>>))>>)

AnalyzerDoc(sch, rsp, use) ==
    <<Entry("openapi", JStr(<<"3.1.0">>))>>
    \o (IF sch = "absent" /\ rsp = "absent" THEN <<>>
        ELSE <<Entry("components", JDict(
                 (IF rsp = "absent" THEN <<>>
                  ELSE <<Entry("responses", JDict(<<Entry("A", PlainSchema)>>))>>)
                 \o <<Entry("x-kept", JDict(<<Entry("A", PlainSchema)>>))>>
                 \o (IF sch = "absent" THEN <<>>
                     ELSE <<Entry("schemas", JDict(SchemasOf(sch)))>>)))>>)
    \o <<Entry("paths", JDict(<<Entry("/u", JDict(<<Entry("get", UseOf(use))>>))>>))>>

InitAnalyze ==
    /\ pc = "query"
    /\ \E sch \in SchemaShapes, rsp \in ResponseShapes, use \in UseShapes :
          loaded = AnalyzerDoc(sch, rsp, use)
    /\ issues = None
    /\ op_counts = None
    /\ operations = None
    /\ analysis = None
    /\ EngineIdle

\* cmd_analyze: OpenAPIAnalyzer.analyze_components().
AnalyzeComponents ==
    /\ pc = "query"
    /\ analysis = None
    /\ analysis' = Some(analyze_components(loaded))
    /\ UNCHANGED <<pc, loaded, issues, op_counts, operations,
                   comp_vars, split_vars, dir_vars, merge_vars>>

NextAnalyze == AnalyzeComponents

SpecAnalyze == InitAnalyze /\ [][NextAnalyze]_vars

(***************************************************************************)
(* core.py: the queries of OperationCounter on a loaded document.          *)
(***************************************************************************)
\* A path item whose keys are in the reverse of the canonical method order.
ItemReversed ==
    [isdict |-> TRUE,
     m |-> <<Entry("trace", OpPlain), Entry("head", OpEmpty), Entry("options", OpPlain),
             Entry("patch", OpAB), Entry("put", OpPlain)>>]

IndexItems == ItemPool \cup {ItemReversed}

\* The `paths` mappings of at most MaxPaths paths given to OperationCounter.
IndexPaths ==
    UNION {{[i \in 1..n |-> Entry(f[i][1], f[i][2])] :
               f \in {g \in [1..n -> {P_u, P_root, P_bui} \X IndexItems] :
                         \A i, j \in 1..n : i # j => g[i][1] # g[j][1]}} :
           n \in 0..MaxPaths}

IndexDocs == {BaseDoc} \cup {[BaseDoc EXCEPT !.paths = Some(ps)] : ps \in IndexPaths}

InitIndex ==
    /\ pc = "query"
    /\ loaded \in IndexDocs
    /\ issues = None
    /\ op_counts = None
    /\ operations = None
    /\ analysis = None
    /\ EngineIdle

\* OperationCounter.count_operations(spec)
CountOperations ==
    /\ pc = "query"
    /\ op_counts = None
    /\ op_counts' = Some(count_operations(loaded))
    /\ UNCHANGED <<pc, loaded, issues, operations, analysis,
                   comp_vars, split_vars, dir_vars, merge_vars>>

\* OperationCounter.get_operations(spec)
GetOperations ==
    /\ pc = "query"
    /\ operations = None
    /\ operations' = Some(get_operations(loaded))
    /\ UNCHANGED <<pc, loaded, issues, op_counts, analysis,
                   comp_vars, split_vars, dir_vars, merge_vars>>

NextIndex == CountOperations \/ GetOperations

SpecIndex == InitIndex /\ [][NextIndex]_vars

(***************************************************************************)
(* Properties of the component merge.                                      *)
(***************************************************************************)
ComponentNames == {"A", "B"}

Defines(c, t, n) == Has(c, t) /\ Has(Get(c, t), n)

DefOf(c, t, n) == Get(Get(c, t), n)

\* The target before the first call followed by the sources, in merge order.
MergeOrder == <<target0>> \o sources

FirstDefining(t, n) ==
    CHOOSE i \in 1..Len(MergeOrder) :
        /\ Defines(MergeOrder[i], t, n)
        /\ \A j \in 1..(i - 1) : ~Defines(MergeOrder[j], t, n)

LastDefining(t, n) ==
    CHOOSE i \in 1..Len(MergeOrder) :
        /\ Defines(MergeOrder[i], t, n)
        /\ \A j \in (i + 1)..Len(MergeOrder) : ~Defines(MergeOrder[j], t, n)

LastSource == sources[Len(sources)]

\* The names of type t that the latest source defines structurally differently
\* from the target it was merged into.
Differing(t) ==
    {n \in ComponentNames :
        /\ Defines(LastSource, t, n)
        /\ Defines(prev_target, t, n)
        /\ dumps_sorted(DefOf(LastSource, t, n)) # dumps_sorted(DefOf(prev_target, t, n))}

\* C4: under keep_first every component identity (type, name) of the target
\* holds the definition of the first mapping in merge order that defined it,
\* and a call leaves every structurally different definition of the target
\* unchanged and counts exactly one conflict of its type for each.
C4_KeepFirst ==
    policy = "keep_first" =>
        /\ ~raised
        /\ \A t \in ComponentTypeSet, n \in ComponentNames :
              /\ Defines(target, t, n) <=> \E i \in 1..Len(MergeOrder) : Defines(MergeOrder[i], t, n)
              /\ Defines(target, t, n) =>
                    DefOf(target, t, n) = DefOf(MergeOrder[FirstDefining(t, n)], t, n)
        /\ sources # <<>> =>
              \A t \in ComponentTypeSet :
                  /\ conflicts[t] = Cardinality(Differing(t))
                  /\ \A n \in Differing(t) : DefOf(target, t, n) = DefOf(prev_target, t, n)

C4_Witness ==
    /\ policy = "keep_first"
    /\ Len(sources) = 2
    /\ Defines(target0, "schemas", "A") /\ DefOf(target0, "schemas", "A") = DefX
    /\ Defines(LastSource, "schemas", "A") /\ DefOf(LastSource, "schemas", "A") = DefY
    /\ DefOf(target, "schemas", "A") = DefX
    /\ conflicts["schemas"] = 1

\* C5: under keep_last every component identity (type, name) of the target
\* holds a definition value-equal to that of the last mapping in merge order
\* that defined it, and a call overwrites every structurally different
\* definition of the target with the source's and counts exactly one conflict
\* of its type for each.
C5_KeepLast ==
    policy = "keep_last" =>
        /\ ~raised
        /\ \A t \in ComponentTypeSet, n \in ComponentNames :
              /\ Defines(target, t, n) <=> \E i \in 1..Len(MergeOrder) : Defines(MergeOrder[i], t, n)
              /\ Defines(target, t, n) =>
                    dumps_sorted(DefOf(target, t, n))
                        = dumps_sorted(DefOf(MergeOrder[LastDefining(t, n)], t, n))
        /\ sources # <<>> =>
              \A t \in ComponentTypeSet :
                  /\ conflicts[t] = Cardinality(Differing(t))
                  /\ \A n \in Differing(t) : DefOf(target, t, n) = DefOf(LastSource, t, n)

C5_Witness ==
    /\ policy = "keep_last"
    /\ Len(sources) = 2
    /\ Defines(target0, "schemas", "A") /\ DefOf(target0, "schemas", "A") = DefX
    /\ Defines(LastSource, "schemas", "A") /\ DefOf(LastSource, "schemas", "A") = DefY
    /\ DefOf(target, "schemas", "A") = DefY
    /\ conflicts["schemas"] = 1

\* C7: merge_components(C, C, policy) returns a conflict count of 0 for every
\* component type, raises nothing and leaves C as it was, under every policy.
C7_SelfMergeIdempotent ==
    self_merged =>
        /\ conflicts = NoConflicts
        /\ ~raised
        /\ target = prev_target

C7_Witness ==
    /\ self_merged
    /\ policy = "error"
    /\ Defines(target, "schemas", "A")
    /\ Defines(target, "schemas", "B")

(***************************************************************************)
(* Properties of the split run and of the round trip.                      *)
(***************************************************************************)
SourceOperations == get_operations(spec)

SourceTriples == {SourceOperations[i] : i \in 1..Len(SourceOperations)}

\* The (path, key, value) entries of the path items of a document.
Entries(doc) ==
    UNION {{[path |-> paths_of(doc)[i].k, method |-> paths_of(doc)[i].v.m[j].k,
             operation |-> paths_of(doc)[i].v.m[j].v] :
               j \in 1..Len(paths_of(doc)[i].v.m)} :
           i \in 1..Len(paths_of(doc))}

MergeEnded == pc \in {"done", "merge_failed"}

\* The merge wrote a document holding exactly the operations of the source,
\* and no (path, method) was written twice.
RoundTrip ==
    /\ pc = "done"
    /\ IsSome(merged_file)
    /\ Entries(Val(merged_file)) = SourceTriples
    /\ stats.path_conflicts = 0

\* C1 as stated: for any document and any operationsPerFile >= 1, a size-based
\* split followed by a merge of its files yields a merged document with
\* exactly the (path, method, Operation) triples of the source and
\* path_conflicts = 0.
C1_AnyDocument ==
    (method = "size" /\ MergeEnded) => RoundTrip

\* C1 as amended: the same, for any document with at least one operation.
C1_SizeRoundTrip ==
    (method = "size" /\ MergeEnded /\ SourceOperations # <<>>) => RoundTrip

\* A path whose methods the chunk boundary put in two files was merged back.
C1_Witness ==
    /\ method = "size"
    /\ pc = "done"
    /\ Len(spec_files) = 2
    /\ \E p \in PathPool :
          /\ Has(paths_of(Get(output_dir, spec_files[1]).doc), p)
          /\ Has(paths_of(Get(output_dir, spec_files[2]).doc), p)
    /\ Len(SourceOperations) = 4

\* The groups a split run has just computed.
GroupsComputed == pc = "writing" /\ mapping.files = <<>>

\* The number of places at which the triple occurs in the groups.
Occurs(triple) ==
    Cardinality({<<i, j>> \in (1..Len(pending)) \X (1..Len(SourceOperations)) :
                    j <= Len(pending[i].endpoints) /\ pending[i].endpoints[j] = triple})

\* C2: every (path, method, Operation) of the document is in exactly one group
\* of group_endpoints_by_path_prefix, re-chunked groups included.
C2_PathPartition ==
    (method = "path" /\ GroupsComputed) => \A t \in SourceTriples : Occurs(t) = 1

IsUntagged(triple) == tags_of(triple.operation) = <<>>

UntaggedGroup ==
    {pending[i].endpoints[j] :
        <<i, j>> \in {<<i, j>> \in (1..Len(pending)) \X (1..Len(SourceOperations)) :
                        pending[i].label = S_untagged /\ j <= Len(pending[i].endpoints)}}

\* C3: every (path, method) of the document is in at least one group of
\* group_endpoints_by_tag, and the group `untagged` holds exactly the
\* operations whose tags are empty or absent.
C3_TagCoverage ==
    (method = "tags" /\ GroupsComputed) =>
        /\ \A t \in SourceTriples : Occurs(t) >= 1
        /\ UntaggedGroup = {t \in SourceTriples : IsUntagged(t)}

\* ceil(n / k)
CeilDiv(n, k) == (n + k - 1) \div k

\* The file name of part i, for i below 1000.
PartName(i) ==
    S_specpart
    \o <<Digits[(i \div 100) + 1], Digits[((i \div 10) % 10) + 1], Digits[(i % 10) + 1]>>
    \o S_json

\* C9: for n >= 1 operations and operationsPerFile = k >= 1, split_by_size
\* writes exactly ceil(n/k) files spec_part001.json, spec_part002.json, ... in
\* increasing part number; each but the last holds k operations, the last
\* n - k * (ceil(n/k) - 1); the chunks in part order make up get_operations.
C9_SizeChunking ==
    (method = "size" /\ pc = "split_done") =>
        LET n     == Len(SourceOperations)
            k     == max_operations
            files == mapping.files
            Chunk(i) == get_operations(Get(output_dir, files[i].name).doc)
        IN  /\ n >= 1
            /\ Len(files) = CeilDiv(n, k)
            /\ Len(output_dir) = CeilDiv(n, k)
            /\ \A i \in 1..Len(files) :
                  /\ files[i].name = PartName(i)
                  /\ Has(output_dir, files[i].name)
                  /\ files[i].endpoint_count = Len(Chunk(i))
                  /\ Len(Chunk(i)) = IF i < Len(files) THEN k ELSE n - k * (CeilDiv(n, k) - 1)
            /\ ConcatAll([i \in 1..Len(files) |-> Chunk(i)]) = SourceOperations

C9_Witness ==
    /\ method = "size"
    /\ pc = "split_done"
    /\ max_operations = 2
    /\ Len(SourceOperations) = 3
    /\ Len(mapping.files) = 2
    /\ mapping.files[2].endpoint_count = 1

\* The label of chunk K of a prefix.
PartLabel(prefix, K) == prefix \o S_part \o str(K)

GroupLabels == {pending[i].label : i \in 1..Len(pending)}

GroupOf(label) == pending[CHOOSE i \in 1..Len(pending) : pending[i].label = label].endpoints

\* C10: a prefix group with more than m entries is returned as the groups
\* prefix_part1, prefix_part2, ... holding its entries in order, all but the
\* last with exactly m; a group with at most m entries keeps the bare prefix;
\* no returned group has more than m entries.
C10_PrefixRechunking ==
    (method = "path" /\ GroupsComputed) =>
        LET m == max_operations
            g == prefix_groups(spec)
        IN  /\ \A i \in 1..Len(g) :
                  IF Len(g[i].v) > m
                  THEN /\ \A K \in 1..CeilDiv(Len(g[i].v), m) :
                            /\ PartLabel(g[i].k, K) \in GroupLabels
                            /\ GroupOf(PartLabel(g[i].k, K))
                                 = SubSeq(g[i].v, (K - 1) * m + 1,
                                          IF K * m < Len(g[i].v) THEN K * m ELSE Len(g[i].v))
                  ELSE /\ g[i].k \in GroupLabels
                       /\ GroupOf(g[i].k) = g[i].v
            /\ \A i \in 1..Len(pending) : Len(pending[i].endpoints) <= m

(***************************************************************************)
(* Properties of the title and of the merge run.                           *)
(***************************************************************************)
SourceTitle == Get(Val(spec.info), "title")

MiniInfo(i) == Val(Get(output_dir, mapping.files[i].name).doc.info)

\* C8: create_mini_spec gives the mini-document of group L the title
\* "T - L", and merging that mini-document alone yields a document whose
\* title is T and whose info has neither x-split-part nor x-split-timestamp.
C8_TitleRoundTrip ==
    /\ (pc = "split_done" /\ Len(mapping.files) = 1) =>
           Get(MiniInfo(1), "title") = SourceTitle \o <<" ", "-", " ">> \o mapping.files[1].label
    /\ (pc = "done" /\ Len(spec_files) = 1) =>
           /\ Get(Val(Val(merged_file).info), "title") = SourceTitle
           /\ ~Has(Val(Val(merged_file).info), "x-split-part")
           /\ ~Has(Val(Val(merged_file).info), "x-split-timestamp")

\* The files of the list the loop has gone through.
Processed == 1..(file_idx - 1)

FileAt(i) == Get(output_dir, spec_files[i])

HasComponents(i) == FileAt(i).ok /\ IsSome(FileAt(i).doc.components)

FileDefines(i, t, n) == HasComponents(i) /\ Defines(Val(FileAt(i).doc.components), t, n)

FileDef(i, t, n) == DefOf(Val(FileAt(i).doc.components), t, n)

\* File i defines (t, n) structurally differently from the first file before
\* it that defined (t, n).
ConflictAt(i, t, n) ==
    /\ FileDefines(i, t, n)
    /\ \E j \in 1..(i - 1) :
          /\ FileDefines(j, t, n)
          /\ \A h \in 1..(j - 1) : ~FileDefines(h, t, n)
          /\ dumps_sorted(FileDef(j, t, n)) # dumps_sorted(FileDef(i, t, n))

Conflicting(i) == \E t \in ComponentTypeSet, n \in ComponentNames : ConflictAt(i, t, n)

TypeIndex(t) == CHOOSE x \in 1..Len(COMPONENT_TYPES) : COMPONENT_TYPES[x] = t

NameIndex(i, t, n) ==
    CHOOSE x \in 1..Len(Get(Val(FileAt(i).doc.components), t)) :
        Get(Val(FileAt(i).doc.components), t)[x].k = n

\* (t1, n1) comes before (t2, n2) in the order merge_components goes through
\* the components of file i.
Before(i, t1, n1, t2, n2) ==
    \/ TypeIndex(t1) < TypeIndex(t2)
    \/ t1 = t2 /\ NameIndex(i, t1, n1) < NameIndex(i, t2, n2)

MergedComponents == Val(merged_spec.components)

LoadedFiles == {i \in 1..Len(spec_files) : FileAt(i).ok}

\* C11: a file whose load fails is skipped, leaving the merged document and
\* the statistics as they were, the loop goes on with the next file, a merge
\* fails only on an empty list or a component conflict under `error`, and a
\* finished merge has gone through the whole list with files_processed equal
\* to the number of files that loaded.
C11_LoadFailureSkipped ==
    /\ [][(pc = "merging" /\ file_idx <= Len(spec_files) /\ ~FileAt(file_idx).ok) =>
             /\ merged_spec' = merged_spec
             /\ stats' = stats
             /\ pc' = "merging"
             /\ file_idx' = file_idx + 1]_vars
    /\ [](pc = "merge_failed" =>
             \/ spec_files = <<>>
             \/ conflict_strategy = "error" /\ FileAt(file_idx - 1).ok)
    /\ [](pc = "done" =>
             /\ file_idx = Len(spec_files) + 1
             /\ stats.files_processed = Cardinality(LoadedFiles))

\* A merge that ended after a file that failed to load and a later one that
\* loaded.
C11_Witness ==
    /\ pc = "done"
    /\ Len(spec_files) = 2
    /\ ~FileAt(1).ok
    /\ FileAt(2).ok
    /\ stats.files_processed = 1
    /\ KeySet(paths_of(merged_spec)) # {}

\* The entries of the manifest file, if it was parsed and has `files`.
Listed == Val(Val(mapping_file).mapping.files)

\* The positions of the manifest whose file is in the directory.
Existing == {i \in 1..Len(Listed) : Listed[i].name \in KeySet(output_dir)}

\* The list is the manifest's entries whose files exist, in manifest order.
FromManifest ==
    /\ Len(spec_files) = Cardinality(Existing)
    /\ \A k \in 1..Len(spec_files) :
          spec_files[k] =
              Listed[CHOOSE i \in Existing : Cardinality({j \in Existing : j <= i}) = k].name

SpecSuffixes == {S_json, <<".", "y", "a", "m", "l">>, <<".", "y", "m", "l">>}

\* The list is the spec_*.json/.yaml/.yml names of the directory, sorted.
FromGlob ==
    /\ {spec_files[k] : k \in 1..Len(spec_files)} =
           {n \in KeySet(output_dir) :
               /\ SubSeq(n, 1, 5) = <<"s", "p", "e", "c", "_">>
               /\ \E x \in SpecSuffixes :
                     Len(n) >= 5 + Len(x) /\ SubSeq(n, Len(n) - Len(x) + 1, Len(n)) = x}
    /\ \A k \in 1..(Len(spec_files) - 1) : str_less(spec_files[k], spec_files[k + 1])

\* An empty list fails the merge with the target, the statistics and the
\* output untouched.
EmptyListFails ==
    spec_files = <<>> =>
        /\ pc = "merge_failed"
        /\ merged_spec = merged_skeleton
        /\ stats = initial_stats
        /\ merged_file = None

Discovered == pc \in {"merging", "done", "merge_failed"}

\* C12 as stated: whenever split_mapping.json is present and parseable the
\* list is the manifest's entries whose files exist, in manifest order (none
\* if it has no entries); otherwise the sorted glob; an empty list fails the
\* merge before the target or any output is touched.
C12_AnyParseableManifest ==
    Discovered =>
        /\ IF IsSome(mapping_file) /\ Val(mapping_file).ok
           THEN IF IsSome(Val(mapping_file).mapping.files) THEN FromManifest
                ELSE spec_files = <<>>
           ELSE FromGlob
        /\ EmptyListFails

\* C12, amended: the manifest is used when it is present, parseable and has a
\* `files` key; in every other case the list is the sorted glob.
C12_Discovery ==
    Discovered =>
        /\ IF IsSome(mapping_file) /\ Val(mapping_file).ok
              /\ IsSome(Val(mapping_file).mapping.files)
           THEN FromManifest
           ELSE FromGlob
        /\ EmptyListFails

\* A manifest naming a missing file before an existing one, over a directory
\* whose glob would give another list.
C12_Witness ==
    /\ Discovered
    /\ IsSome(mapping_file) /\ Val(mapping_file).ok
    /\ IsSome(Val(mapping_file).mapping.files)
    /\ Len(Listed) = 2
    /\ Listed[1].name = N_gone
    /\ Listed[2].name = N_notes
    /\ spec_files = <<N_notes>>
    /\ N_spec_b \in KeySet(output_dir)

\* The split run has returned without raising.
SplitReturned == pc \in {"split_done", "split_empty", "merging", "done", "merge_failed"}

\* The manifest file lists the written files in write order with their counts.
ManifestDescribesFiles ==
    /\ IsSome(mapping_file)
    /\ Val(mapping_file).ok
    /\ IsSome(Val(mapping_file).mapping.files)
    /\ Len(Listed) = Len(output_dir)
    /\ \A i \in 1..Len(Listed) :
          /\ Listed[i].name = output_dir[i].k
          /\ Listed[i].endpoint_count = Len(get_operations(output_dir[i].v.doc))
          /\ Listed[i].path_count = Len(paths_of(output_dir[i].v.doc))

\* C13: every split run writes one manifest to split_mapping.json, only after
\* every group document of the run is written, with one entry per written
\* file, in write order, holding the file's operation count and path count.
C13_ManifestWritten ==
    /\ (pc = "writing" /\ pending # <<>>) => mapping_file = None
    /\ SplitReturned => ManifestDescribesFiles

\* The issues of the validator in their fixed order.
IssueOrder ==
    <<I_version, I_info, I_info_type, I_title, I_info_ver,
      I_paths, I_paths_type, I_paths_none, I_components>>

Returned == Val(issues)

InfoIsMapping == Has(loaded, "info") /\ Get(loaded, "info").kind = "dict"

PathsIsMapping == Has(loaded, "paths") /\ Get(loaded, "paths").kind = "dict"

\* The check that issue x reports has failed on the loaded document.
CheckFails(x) ==
    CASE x = I_version    -> ~Has(loaded, "openapi") /\ ~Has(loaded, "swagger")
      [] x = I_info       -> ~Has(loaded, "info")
      [] x = I_info_type  -> Has(loaded, "info") /\ ~InfoIsMapping
      [] x = I_title      -> InfoIsMapping /\ ~Has(Get(loaded, "info").v, "title")
      [] x = I_info_ver   -> InfoIsMapping /\ ~Has(Get(loaded, "info").v, "version")
      [] x = I_paths      -> ~Has(loaded, "paths")
      [] x = I_paths_type -> Has(loaded, "paths") /\ ~PathsIsMapping
      [] x = I_paths_none -> PathsIsMapping /\ Len(Get(loaded, "paths").v) = 0
      [] x = I_components -> Has(loaded, "components")
                                 /\ Get(loaded, "components").kind # "dict"

\* The document is valid in the sense of the claim.
StructurallyValid ==
    /\ Has(loaded, "openapi") \/ Has(loaded, "swagger")
    /\ InfoIsMapping
    /\ Has(Get(loaded, "info").v, "title")
    /\ Has(Get(loaded, "info").v, "version")
    /\ PathsIsMapping
    /\ Len(Get(loaded, "paths").v) > 0
    /\ Has(loaded, "components") => Get(loaded, "components").kind = "dict"

\* C14: validate_spec_structure returns exactly one issue per failed check, in
\* the fixed order version, info, paths, components; the list is empty exactly
\* for a valid document; a document missing only both version keys and
\* info.title gets exactly 2 issues, the version issue first.
C14_ValidatorOrder ==
    IsSome(issues) =>
        /\ \E pos \in [1..Len(Returned) -> 1..Len(IssueOrder)] :
              /\ \A i \in 1..Len(Returned) : IssueOrder[pos[i]] = Returned[i]
              /\ \A i \in 1..(Len(Returned) - 1) : pos[i] < pos[i + 1]
        /\ \A k \in 1..Len(IssueOrder) :
              CheckFails(IssueOrder[k]) <=> \E i \in 1..Len(Returned) : Returned[i] = IssueOrder[k]
        /\ Returned = <<>> <=> StructurallyValid
        /\ ({x \in {IssueOrder[k] : k \in 1..Len(IssueOrder)} : CheckFails(x)}
                = {I_version, I_title})
              => Returned = <<I_version, I_title>>

\* The validator has run on a document missing the version keys and the title
\* and on nothing else.
C14_Witness ==
    /\ IsSome(issues)
    /\ Len(Returned) = 2
    /\ ~Has(loaded, "openapi") /\ ~Has(loaded, "swagger")
    /\ InfoIsMapping /\ ~Has(Get(loaded, "info").v, "title")
    /\ Has(loaded, "components")

\* File i defines (t, n) structurally differently from what the target holds
\* for (t, n) when the file is merged: the first definition before it under
\* keep_first and error, the latest one under keep_last.
DiffersFromTarget(i, t, n) ==
    IF conflict_strategy = "keep_last"
    THEN /\ FileDefines(i, t, n)
         /\ \E j \in 1..(i - 1) :
               /\ FileDefines(j, t, n)
               /\ \A h \in (j + 1)..(i - 1) : ~FileDefines(h, t, n)
               /\ dumps_sorted(FileDef(j, t, n)) # dumps_sorted(FileDef(i, t, n))
    ELSE ConflictAt(i, t, n)

\* The conflicts of type t that merge_components met in the files gone
\* through: under `error` the one that raised is the only one.
ConflictsMet(t) ==
    IF conflict_strategy = "error"
    THEN IF \E i \in Processed : Conflicting(i)
         THEN LET f == CHOOSE i \in Processed : Conflicting(i) /\ \A j \in 1..(i - 1) : ~Conflicting(j)
                  first == CHOOSE x \in ComponentTypeSet :
                               /\ \E n \in ComponentNames : ConflictAt(f, x, n)
                               /\ \A y \in ComponentTypeSet :
                                     (\E n \in ComponentNames : ConflictAt(f, y, n))
                                         => TypeIndex(x) <= TypeIndex(y)
              IN  IF t = first THEN 1 ELSE 0
         ELSE 0
    ELSE Cardinality({<<i, n>> \in Processed \X ComponentNames : DiffersFromTarget(i, t, n)})

\* The count of type t in the statistics of the merger.
Reported(t) ==
    IF Has(stats.component_conflicts, t) THEN Get(stats.component_conflicts, t) ELSE 0

\* C15: under every policy the count of each structurally differing duplicate
\* reaches the caller and is accumulated in component_conflicts, the conflict
\* that raised under `error` included.
C15_ConflictsReported ==
    (Discovered /\ spec_files # <<>>) =>
        \A t \in ComponentTypeSet : Reported(t) = ConflictsMet(t)

\* The values of all `$ref` keys anywhere in a JSON tree.
RECURSIVE AllRefValues(_)
AllRefValues(obj) ==
    IF obj.kind = "dict"
    THEN UNION {IF obj.v[i].k = "$ref" /\ obj.v[i].v.kind = "str"
                THEN {obj.v[i].v.v}
                ELSE AllRefValues(obj.v[i].v) : i \in 1..Len(obj.v)}
    ELSE IF obj.kind = "list"
    THEN UNION {AllRefValues(obj.v[i]) : i \in 1..Len(obj.v)}
    ELSE {}

\* The declared components of the 9 types, as (type, name).
Declared ==
    IF ~Has(loaded, "components") THEN {}
    ELSE UNION {{<<Get(loaded, "components").v[i].k, Get(loaded, "components").v[i].v.v[j].k>> :
                    j \in 1..Len(Get(loaded, "components").v[i].v.v)} :
                i \in {i \in 1..Len(Get(loaded, "components").v) :
                          Get(loaded, "components").v[i].k \in ComponentTypeSet}}

Referenced ==
    {d \in Declared : <<"#", "components", d[1], d[2]>> \in AllRefValues(JDict(loaded))}

\* C16: reusability_score is the number of declared components whose
\* reference string is the value of a `$ref` key anywhere in the document,
\* divided by the number of declared components, and unused_components is the
\* number of declared components not so referenced.
C16_Reusability ==
    (IsSome(analysis) /\ Declared # {}) =>
        /\ Val(analysis).reusability_score.num * Cardinality(Declared)
               = Cardinality(Referenced) * Val(analysis).reusability_score.den
        /\ Val(analysis).unused_components = Some(Cardinality(Declared \ Referenced))

\* The position of a path in the `paths` of the loaded document.
PathPos(path) == CHOOSE i \in 1..Len(paths_of(loaded)) : paths_of(loaded)[i].k = path

\* The rank of a method in get, post, put, delete, patch, options, head, trace.
MethodRank(m) ==
    CHOOSE i \in 1..8 :
        <<"get", "post", "put", "delete", "patch", "options", "head", "trace">>[i] = m

\* The operations of the loaded document: one per HTTP method key of each
\* path item that is a mapping.
DocumentTriples ==
    {e \in Entries(loaded) :
        e.method \in {"get", "post", "put", "delete", "patch", "options", "head", "trace"}}

Listed_ops == Val(operations)

\* C17: get_operations lists exactly the operations of the mapping path items,
\* paths in document order and methods in the canonical order within a path;
\* count_operations gives a total equal to that number and to the sum of its
\* per-method counts.
C17_OperationIndex ==
    /\ IsSome(operations) =>
          /\ {Listed_ops[i] : i \in 1..Len(Listed_ops)} = DocumentTriples
          /\ Len(Listed_ops) = Cardinality(DocumentTriples)
          /\ \A i, j \in 1..Len(Listed_ops) :
                i < j =>
                    \/ PathPos(Listed_ops[i].path) < PathPos(Listed_ops[j].path)
                    \/ /\ Listed_ops[i].path = Listed_ops[j].path
                       /\ MethodRank(Listed_ops[i].method) < MethodRank(Listed_ops[j].method)
    /\ IsSome(op_counts) =>
          /\ Val(op_counts)["total"] = Cardinality(DocumentTriples)
          /\ \A m \in MethodSet :
                Val(op_counts)[m] = Cardinality({e \in DocumentTriples : e.method = m})
    /\ (IsSome(operations) /\ IsSome(op_counts)) =>
          Val(op_counts)["total"] = Len(Listed_ops)

\* Both queries have run on a document with a non-mapping path item and a path
\* item whose keys are not in canonical order.
C17_Witness ==
    /\ IsSome(operations)
    /\ IsSome(op_counts)
    /\ Len(paths_of(loaded)) = 2
    /\ ~paths_of(loaded)[1].v.isdict
    /\ paths_of(loaded)[2].v = ItemMany
    /\ Len(Listed_ops) = 3
    /\ Listed_ops[1].method = "get"

\* The files whose paths merge_paths has merged: the loaded files the loop has
\* gone through, but for the one on which merge_components raised.
PathsMergedFrom ==
    {i \in Processed : FileAt(i).ok /\ ~(pc = "merge_failed" /\ i = file_idx - 1)}

FileEntries(i) == Entries(FileAt(i).doc)

SameSlot(e1, e2) == e1.path = e2.path /\ e1.method = e2.method

\* The (file, path, key) writes of merge_paths so far.
PathWrites ==
    {w \in PathsMergedFrom \X {<<e.path, e.method>> : e \in UNION {FileEntries(i) : i \in PathsMergedFrom}} :
        \E e \in FileEntries(w[1]) : <<e.path, e.method>> = w[2]}

\* C18: under any conflict strategy the target holds at each (path, method)
\* the operation of the last processed file that has it; path_conflicts
\* counts each write to a (path, method) the target already held, and
\* operations_merged counts each write of one of the 8 HTTP methods.
C18_PathsLastWriteWins ==
    (Discovered /\ spec_files # <<>>) =>
        /\ \A e \in Entries(merged_spec) :
              \E i \in PathsMergedFrom :
                  /\ e \in FileEntries(i)
                  /\ \A j \in PathsMergedFrom :
                        j > i => ~\E e2 \in FileEntries(j) : SameSlot(e, e2)
        /\ \A i \in PathsMergedFrom : \A e \in FileEntries(i) :
              \E e2 \in Entries(merged_spec) : SameSlot(e, e2)
        /\ stats.path_conflicts =
              Cardinality({w \in PathWrites :
                              \E v \in PathWrites : v[1] < w[1] /\ v[2] = w[2]})
        /\ stats.operations_merged =
              Cardinality({w \in PathWrites : w[2][2] \in MethodSet})

\* Under keep_first a second file has overwritten GET /u of the first one.
C18_Witness ==
    /\ pc = "done"
    /\ conflict_strategy = "keep_first"
    /\ Len(spec_files) = 2
    /\ [path |-> P_u, method |-> "get", operation |-> OpPlain] \in FileEntries(1)
    /\ [path |-> P_u, method |-> "get", operation |-> OpUT] \in FileEntries(2)
    /\ [path |-> P_u, method |-> "get", operation |-> OpUT] \in Entries(merged_spec)
    /\ stats.path_conflicts = 1
    /\ stats.operations_merged = 4

\* Some file the loop has gone through loaded.
SomeLoaded == \E i \in Processed : FileAt(i).ok

\* The first file of the list that loaded.
FirstLoaded == CHOOSE i \in Processed : FileAt(i).ok /\ \A j \in 1..(i - 1) : ~FileAt(j).ok

\* C19: the version of the target is the `openapi` of the first file that
\* loaded, or else its `swagger`; a file that failed to load before it does
\* not count, and no later file changes the version of the target.
C19_VersionFromFirst ==
    /\ []((Discovered /\ SomeLoaded) =>
             LET first == FileAt(FirstLoaded).doc
             IN  /\ IsSome(first.openapi) => merged_spec.openapi = first.openapi
                 /\ (~IsSome(first.openapi) /\ IsSome(first.swagger)) =>
                        merged_spec.swagger = first.swagger)
    /\ [][(Discovered /\ SomeLoaded) =>
             /\ merged_spec'.openapi = merged_spec.openapi
             /\ merged_spec'.swagger = merged_spec.swagger]_vars

\* A file that failed to load, then a file with its own `openapi` value: the
\* merge ended with that value.
C19_Witness ==
    /\ pc = "done"
    /\ Len(spec_files) = 2
    /\ ~FileAt(1).ok
    /\ FileAt(2).doc.openapi = Some("3.1.1")
    /\ merged_spec.openapi = Some("3.1.1")

MergedInfo == Val(merged_spec.info)

\* a is the beginning of b.
IsPrefix(a, b) == Len(a) <= Len(b) /\ SubSeq(b, 1, Len(a)) = a

\* The keys of `info` that start with `x-`.
XKeys == {"x-logo", "x-owner", "x-split-part", "x-split-timestamp"}

\* The file the loop is about to go through is a later file with an `info`.
LaterFileNext ==
    /\ pc = "merging"
    /\ file_idx <= Len(spec_files)
    /\ FileAt(file_idx).ok
    /\ stats.files_processed > 0

\* C20: the info of the first processed file is copied into the target (but
\* for the split keys, and with the title cut at its split suffix); a later
\* file only adds `description` and `x-` keys the target does not hold, with
\* its own values, and changes no value the target holds; the target's info
\* never holds x-split-part or x-split-timestamp.
C20_InfoFirstSeenWins ==
    /\ []((Discovered /\ SomeLoaded /\ IsSome(FileAt(FirstLoaded).doc.info)) =>
             LET first == Val(FileAt(FirstLoaded).doc.info)
             IN  \A k \in KeySet(first) \ {"x-split-part", "x-split-timestamp"} :
                    /\ Has(MergedInfo, k)
                    /\ IF k = "title"
                       THEN IsPrefix(Get(MergedInfo, k), Get(first, k))
                       ELSE Get(MergedInfo, k) = Get(first, k))
    /\ [][LaterFileNext =>
             LET info_after == Val(merged_spec'.info)
                 file       == FileAt(file_idx).doc
             IN  /\ \A k \in KeySet(MergedInfo) :
                        Has(info_after, k) /\ Get(info_after, k) = Get(MergedInfo, k)
                 /\ \A k \in KeySet(info_after) \ KeySet(MergedInfo) :
                        /\ k = "description" \/ k \in XKeys
                        /\ IsSome(file.info)
                        /\ Has(Val(file.info), k)
                        /\ Get(info_after, k) = Get(Val(file.info), k)]_vars
    /\ [](~Has(MergedInfo, "x-split-part") /\ ~Has(MergedInfo, "x-split-timestamp"))

\* A first file without description, then a file that adds its description
\* and its x-logo and whose title, version and split keys are not taken.
C20_Witness ==
    /\ pc = "done"
    /\ Len(spec_files) = 2
    /\ FileAt(1).doc.info = MergeBase.info
    /\ FileAt(2).ok
    /\ IsSome(FileAt(2).doc.info)
    /\ Has(Val(FileAt(2).doc.info), "x-split-part")
    /\ Keys(MergedInfo) = <<"title", "version", "description", "x-logo">>
    /\ Get(MergedInfo, "title") = T_Pet
    /\ Get(MergedInfo, "description") = <<"d2">>

(***************************************************************************)
(* Properties of the root properties of the merged document.               *)
(***************************************************************************)
\* The loop is about to merge a file that loaded.
FileNext == pc = "merging" /\ file_idx <= Len(spec_files) /\ FileAt(file_idx).ok

NextDoc == FileAt(file_idx).doc

TagNames(tags) == {tags[i].name : i \in 1..Len(tags)}

DistinctNames(tags) == \A i, j \in 1..Len(tags) : i # j => tags[i].name # tags[j].name

\* The description of the first tag of the list that bears the name and has
\* a description, if there is one.
FirstDescription(tags, n) ==
    LET having == {i \in 1..Len(tags) : tags[i].name = n /\ IsSome(tags[i].description)}
    IN  IF having = {} THEN None
        ELSE tags[CHOOSE i \in having : \A j \in having : i <= j].description

\* C21: when a file is merged into a target that has `tags`, the tags of the
\* target stay in place, a tag is appended only if it is a tag of the file
\* whose name no tag before it in the target bears, every tag name of the file
\* is in the target afterwards, pairwise distinct names stay pairwise
\* distinct, a tag of the target without description gets the description of
\* the file's tag of that name, and a description of the target is not changed.
C21_TagsDeduplicated ==
    [][(FileNext /\ IsSome(merged_spec.tags) /\ IsSome(NextDoc.tags)) =>
          LET before   == Val(merged_spec.tags)
              after    == Val(merged_spec'.tags)
              incoming == Val(NextDoc.tags)
          IN  /\ Len(after) >= Len(before)
              /\ \A i \in 1..Len(before) : after[i].name = before[i].name
              /\ \A k \in (Len(before) + 1)..Len(after) :
                    /\ \E i \in 1..Len(incoming) : incoming[i] = after[k]
                    /\ \A h \in 1..(k - 1) : after[h].name # after[k].name
              /\ TagNames(incoming) \subseteq TagNames(after)
              /\ DistinctNames(before) => DistinctNames(after)
              /\ \A i \in 1..Len(before) :
                    IF IsSome(before[i].description)
                    THEN after[i].description = before[i].description
                    ELSE DistinctNames(before) =>
                             after[i].description = FirstDescription(incoming, before[i].name)]_vars

SameValue(a, b) == dumps_sorted(a) = dumps_sorted(b)

\* The positions of the file's servers that are new to the target: value-equal
\* to no server of the target and to no earlier server of the file.
NewServers(before, incoming) ==
    {i \in 1..Len(incoming) :
        /\ \A h \in 1..Len(before) : ~SameValue(before[h], incoming[i])
        /\ \A j \in 1..(i - 1) : ~SameValue(incoming[j], incoming[i])}

\* C22: a target without `servers` takes the list of the file verbatim; a
\* target with `servers` keeps its entries in place and gets, in file order,
\* the servers of the file that are value-equal (key order ignored) to none of
\* the target, one appended earlier from the same file included; `security`
\* and `externalDocs` are taken from the first file that has them and never
\* changed afterwards.
C22_ServersDeduplicated ==
    /\ [][FileNext =>
             LET before == merged_spec.servers
                 after  == merged_spec'.servers
             IN  /\ ~IsSome(NextDoc.servers) => after = before
                 /\ (IsSome(NextDoc.servers) /\ ~IsSome(before)) => after = NextDoc.servers
                 /\ (IsSome(NextDoc.servers) /\ IsSome(before)) =>
                        LET incoming == Val(NextDoc.servers)
                            new      == NewServers(Val(before), incoming)
                        IN  /\ IsSome(after)
                            /\ IsPrefix(Val(before), Val(after))
                            /\ Len(Val(after)) = Len(Val(before)) + Cardinality(new)
                            /\ \A i \in new :
                                  Val(after)[Len(Val(before)) + Cardinality({j \in new : j <= i})]
                                      = incoming[i]
                 /\ merged_spec'.security =
                        IF IsSome(merged_spec.security) THEN merged_spec.security
                        ELSE NextDoc.security
                 /\ merged_spec'.externalDocs =
                        IF IsSome(merged_spec.externalDocs) THEN merged_spec.externalDocs
                        ELSE NextDoc.externalDocs]_vars
    /\ [][(IsSome(merged_spec.servers) =>
               (/\ IsSome(merged_spec'.servers)
                /\ IsPrefix(Val(merged_spec.servers), Val(merged_spec'.servers))))
           /\ (IsSome(merged_spec.security) =>
                  (merged_spec'.security = merged_spec.security))
           /\ (IsSome(merged_spec.externalDocs) =>
                  (merged_spec'.externalDocs = merged_spec.externalDocs))]_vars

\* A first file with one server, then a file with the same server in another
\* key order, a new server, its own `security` and the first `externalDocs`.
C22_Witness ==
    /\ pc = "done"
    /\ Len(spec_files) = 2
    /\ FileAt(1).ok /\ FileAt(1).doc.servers = Some(<<Srv1>>)
    /\ FileAt(2).ok /\ FileAt(2).doc.servers = Some(<<Srv1r, Srv2>>)
    /\ merged_spec.servers = Some(<<Srv1, Srv2>>)
    /\ merged_spec.security = Some(<<"key">>)
    /\ merged_spec.externalDocs = Some("docs2")

(***************************************************************************)
(* Properties of the mini-documents.                                       *)
(***************************************************************************)
MiniSpec == Val(mini_spec)

\* C23: the mini-document holds the source's `openapi` value when the source
\* has one, the source's `swagger` value under `swagger` (and no `openapi`)
\* when the source has only that, and `openapi: 3.1.0` when it has neither.
C23_MiniVersion ==
    IsSome(mini_spec) =>
        /\ IsSome(spec.openapi) => MiniSpec.openapi = spec.openapi
        /\ (~IsSome(spec.openapi) /\ IsSome(spec.swagger)) =>
               (MiniSpec.swagger = spec.swagger /\ MiniSpec.openapi = None)
        /\ (~IsSome(spec.openapi) /\ ~IsSome(spec.swagger)) =>
               (MiniSpec.openapi = Some("3.1.0") /\ MiniSpec.swagger = None)

\* The component types of which the source holds at least one definition.
SourceTypes ==
    IF ~IsSome(spec.components) THEN {}
    ELSE {t \in ComponentTypeSet :
             Has(Val(spec.components), t) /\ Get(Val(spec.components), t) # <<>>}

\* C24: the mini-document has a `components` key only when include_components
\* is true and the source has at least one component of the 9 types; it then
\* holds every non-empty type of the source with all its definitions and no
\* empty type; otherwise the mini-document has no `components` key.
C24_MiniComponents ==
    IsSome(mini_spec) =>
        IF include_components /\ SourceTypes # {}
        THEN /\ IsSome(MiniSpec.components)
             /\ KeySet(Val(MiniSpec.components)) = SourceTypes
             /\ \A t \in SourceTypes :
                   Get(Val(MiniSpec.components), t) = Get(Val(spec.components), t)
        ELSE ~IsSome(MiniSpec.components)

(***************************************************************************)
(* Properties of the finalization and of the statistics of the merge.      *)
(***************************************************************************)
\* The loop of merge_all has gone through the whole list.
LoopEnded == pc = "merging" /\ file_idx > Len(spec_files)

\* The component types of the document that hold at least one definition.
NonEmptyTypes(doc) ==
    IF ~IsSome(doc.components) THEN {}
    ELSE {t \in KeySet(Val(doc.components)) : Get(Val(doc.components), t) # <<>>}

\* C25: after clean_merged_spec the target has no empty component type, has
\* no `components` key when every type was empty or absent, holds every
\* non-empty type as it was, and every other key as it was; the finalization
\* goes through whether or not `paths` is empty.
C25_Finalization ==
    /\ [][LoopEnded =>
             /\ pc' = "done"
             /\ IsSome(merged_spec'.components) <=> (NonEmptyTypes(merged_spec) # {})
             /\ NonEmptyTypes(merged_spec') = NonEmptyTypes(merged_spec)
             /\ IsSome(merged_spec'.components) =>
                    /\ KeySet(Val(merged_spec'.components)) = NonEmptyTypes(merged_spec)
                    /\ \A t \in NonEmptyTypes(merged_spec) :
                          Get(Val(merged_spec'.components), t)
                              = Get(Val(merged_spec.components), t)
             /\ [merged_spec' EXCEPT !.components = None]
                    = [merged_spec EXCEPT !.components = None]]_vars
    /\ [](LoopEnded => ENABLED MergeFinish)

\* A merge of two files without paths, one with an empty type only and one
\* with an empty and a non-empty type, has been finalized.
C25_Witness ==
    /\ pc = "done"
    /\ Len(spec_files) = 2
    /\ FileAt(1).doc.components = Some(<<Entry("schemas", <<>>)>>)
    /\ FileAt(2).ok
    /\ FileAt(2).doc.components
          = Some(<<Entry("headers", <<>>), Entry("schemas", <<Entry("A", DefX)>>)>>)
    /\ merged_spec.components = Some(<<Entry("schemas", <<Entry("A", DefX)>>)>>)
    /\ paths_of(merged_spec) = <<>>

\* C26: no step of the splitter (building a mini-document by a direct call or
\* in a split run, grouping, writing the manifest) changes the loaded source
\* document or the common components extracted from it, and the mini-document
\* carries the split title and the split keys while the source does not.
C26_SourceUnchanged ==
    /\ [][spec' = spec /\ common_components' = common_components]_vars
    /\ [](/\ common_components = extract_components(spec)
          /\ IsSome(spec.info) =>
                (/\ ~Has(Val(spec.info), "x-split-part")
                 /\ ~Has(Val(spec.info), "x-split-timestamp")
                 /\ Get(Val(spec.info), "title") = T_Pet))

\* A split run has written two mini-documents with their split titles from a
\* source that has an `info`.
C26_Witness ==
    /\ pc = "split_done"
    /\ Len(mapping.files) >= 2
    /\ IsSome(spec.info)
    /\ IsSome(mini_spec)
    /\ Has(Val(MiniSpec.info), "x-split-part")
    /\ Get(Val(MiniSpec.info), "title") # Get(Val(spec.info), "title")
    /\ \A i \in 1..Len(mapping.files) :
          Get(Val(Get(output_dir, mapping.files[i].name).doc.info), "title")
              = T_Pet \o S_sep \o mapping.files[i].label

\* The named definitions of component type t in a document.
Named(doc, t) ==
    IF IsSome(doc.components) /\ Has(Val(doc.components), t)
    THEN dumps_sorted(Get(Val(doc.components), t))
    ELSE {}

\* The merge of the split directory reported no component conflict, did not
\* fail, and ended with the named definitions of the source in each type.
NoComponentConflict ==
    /\ stats.component_conflicts = <<>>
    /\ pc # "merge_failed"
    /\ pc = "done" =>
          \A t \in ComponentTypeSet : Named(merged_spec, t) = Named(spec, t)

\* C27 as stated: for any document, split method and conflict strategy, the
\* merge of the files of one split reports zero component conflicts, does not
\* fail, and yields the named definitions of the document in each of the 9
\* component types.
C27_AnyDocument == Discovered => NoComponentConflict

\* C27, amended: the same for any document with at least one operation.
C27_SplitNeverConflicts ==
    (Discovered /\ SourceOperations # <<>>) => NoComponentConflict

\* Under `error` the merge of a split into two or more files, each holding
\* the three definitions of the source, has ended.
C27_Witness ==
    /\ pc = "done"
    /\ conflict_strategy = "error"
    /\ Len(spec_files) >= 2
    /\ \A i \in 1..Len(spec_files) :
          Named(FileAt(i).doc, "schemas") = {<<"A", DefX>>, <<"B", DefY>>}
    /\ Named(merged_spec, "schemas") = {<<"A", DefX>>, <<"B", DefY>>}
    /\ Named(merged_spec, "responses") = {<<"A", DefY>>}
    /\ stats.component_conflicts = <<>>

\* The (path, HTTP method) entries of the target.
TargetOperations == {e \in Entries(merged_spec) : e.method \in MethodSet}

\* The path items of the files of the list hold only HTTP-method keys.
OnlyMethodKeys ==
    \A i \in 1..Len(spec_files) :
        FileAt(i).ok => \A e \in FileEntries(i) : e.method \in MethodSet

\* C28: after each processed file, paths_merged is the number of path keys of
\* the target and operations_merged the number of (path, HTTP method) entries
\* of the target plus path_conflicts, for files whose path items hold only
\* HTTP-method keys; and the merge of a size-based or path-based split of a
\* document ends with operations_merged equal to the number of operations of
\* the document.
C28_StatsConsistent ==
    (Discovered /\ OnlyMethodKeys) =>
        /\ stats.paths_merged = Len(paths_of(merged_spec))
        /\ stats.operations_merged = Cardinality(TargetOperations) + stats.path_conflicts
        /\ (pc = "done" /\ method \in {"size", "path"}) =>
               stats.operations_merged = Len(SourceOperations)

(***************************************************************************)
(* Properties of the file names and of the chunk size of a split run.      *)
(***************************************************************************)
\* C29: in a split by tags or by path prefix two different group labels are
\* never given the same file name, so no group document replaces another and
\* the entries of the manifest name pairwise different files.
C29_DistinctFiles ==
    /\ (method \in {"tags", "path"} /\ GroupsComputed) =>
           \A i, j \in 1..Len(pending) :
               pending[i].label # pending[j].label => pending[i].name # pending[j].name
    /\ (method \in {"tags", "path"} /\ pc = "split_done") =>
           /\ Len(output_dir) = Len(mapping.files)
           /\ \A i, j \in 1..Len(mapping.files) :
                 i # j => mapping.files[i].name # mapping.files[j].name

\* The (path, method, operation) triples of the written group documents.
WrittenTriples ==
    UNION {Entries(output_dir[i].v.doc) : i \in 1..Len(output_dir)}

\* The split run has returned to cmd_split without an error.
SplitSucceeded == pc \in {"split_done", "split_empty"}

\* C30: for any integer chunk size, a split by size or by path prefix of a
\* document with at least one operation either fails with an error or writes
\* every operation of the document into some group document.
C30_NoSilentLoss ==
    (method \in {"size", "path"} /\ SourceOperations # <<>> /\ SplitSucceeded) =>
        SourceTriples \subseteq WrittenTriples

====
